---- MODULE Spec2Model ----
(***************************************************************************)
(* FossFLOW backend: the credential lifecycle of server/routes/auth.js,    *)
(* server/routes/users.js and server/middleware/auth.js over the users     *)
(* table of the init SQL.  Every route handler is one action; the store    *)
(* is the users table and the audit log; the clock is in seconds.          *)
(*   users       the rows of the users table                               *)
(*   audit_logs  the rows of the audit_logs table, oldest first            *)
(*   now         the server clock                                          *)
(*   held        the bearer tokens the clients keep, one for each user     *)
(*   last        the latest request's operation and its response           *)
(*   enrolled    history: the users for whom a verify-2fa has succeeded    *)
(*   api_keys    the rows of the api_keys table                            *)
(*   inflight    the requests a handler has begun and not yet answered     *)
(*   reveals     history: for each raw API key generated, in order, the    *)
(*               number of responses that carried it                       *)
(*   hits        the auth limiter's count of each client address in the    *)
(*               current window                                            *)
(*   reached     history: for each client address, the requests of the     *)
(*               current window that an auth handler has served            *)
(*   diagrams, diagram_versions   the rows of those tables                 *)
(*   serial      the number of ids the store has generated for each of the *)
(*               two tables                                                *)
(*   env         process.env and the files it names, as startServer sees   *)
(*               them                                                      *)
(*   server      startServer's position and the listeners it has started   *)
(*   db          the fossflow database as scripts/restore.sh leaves it     *)
(*   uploads     the directory /app/uploads                                *)
(*   backup_dir  the files of /backups                                     *)
(*   sh          the run of scripts/backup.sh or scripts/restore.sh: its   *)
(*               arguments and environment, its position, its exit status  *)
(***************************************************************************)
EXTENDS Integers, Sequences, FiniteSets, TLC

VARIABLES users, audit_logs, now, held, last, enrolled, api_keys, inflight, reveals,
          hits, reached, diagrams, diagram_versions, serial, env, server,
          db, uploads, backup_dir, sh

vars == <<users, audit_logs, now, held, last, enrolled, api_keys, inflight, reveals,
          hits, reached, diagrams, diagram_versions, serial, env, server,
          db, uploads, backup_dir, sh>>

limiterVars == <<hits, reached>>
diagramVars == <<diagrams, diagram_versions, serial>>
serverVars == <<env, server>>
scriptVars == <<db, uploads, backup_dir, sh>>

(***************************************************************************)
(* Bounds of the exploration.                                              *)
(***************************************************************************)
MaxAuditLogs == 1
MaxSalt == 4
MaxApiKeys == 2
MaxRequests == 6
MaxWindows == 1
MaxDiagrams == 2
MaxVersions == 2
MaxDiagramLogs == 3
MaxAccountLogs == 2

(***************************************************************************)
(* Program constants.                                                      *)
(***************************************************************************)
saltRounds == 12
MinPasswordLength == 8
TotpStep == 30
TotpWindow == 1
ExpiresIn == 86400

NULL == 0
NoTime == -1

JWT_SECRET == "JWT_SECRET"
AttackerKey == "attacker"

(***************************************************************************)
(* Request inputs.  A missing or empty JSON field is falsy in the          *)
(* handlers: "" for strings, <<>> for a password, NoCode for a TOTP code.  *)
(***************************************************************************)
PwAdmin == <<1, 1, 1, 1, 1, 1, 1, 1>>
PwUser == <<2, 2, 2, 2, 2, 2, 2, 2>>
PwShort == <<3, 3, 3, 3, 3, 3, 3>>
RegisterPasswords == {<<>>, PwShort, PwUser}
LoginPasswords == {<<>>, PwAdmin, PwUser}

Emails == {"", "admin@fossflow.local", "a@example.com"}
Usernames == {"", "admin", "alice"}
Salts == {1}
Secrets == {1, 2}
TargetIds == {1, 2}

NoCode == <<0, 0>>
BadCode == <<-1, 0>>

(***************************************************************************)
(* bcryptjs: the digest embeds the work factor and the salt; compare       *)
(* recomputes the digest under the embedded salt and work factor.          *)
(***************************************************************************)
BcryptDigest(password, salt, rounds) == <<rounds, salt, password>>

BcryptHash(password, rounds, salt) ==
  [rounds |-> rounds, salt |-> salt, digest |-> BcryptDigest(password, salt, rounds)]

BcryptCompare(password, hash) ==
  hash.digest = BcryptDigest(password, hash.salt, hash.rounds)

(***************************************************************************)
(* speakeasy TOTP: the code of a secret at a 30-second counter, and        *)
(* verification within +-window steps of the current counter.              *)
(***************************************************************************)
TotpCounter(t) == t \div TotpStep

TotpCode(secret, counter) == <<secret, counter>>

\* Variant: only the current step and the steps before it are tried.
TotpVerifyPastOnly(secret, token, window, t) ==
  \E i \in (TotpCounter(t) - window)..TotpCounter(t) :
    token = TotpCode(secret, i)

TotpVerify(secret, token, window, t) ==
  \E i \in (TotpCounter(t) - window)..(TotpCounter(t) + window) :
    token = TotpCode(secret, i)

\* The codes a client can submit: none, a guess, or the code of a secret the
\* server has handed out, for a step within two steps of the server's clock.
KnownSecrets(us) ==
  {us[i].totp_secret : i \in 1..Len(us)} \cup
  {us[i].totp_temp_secret : i \in 1..Len(us)}

TotpInputs(us, t) ==
  {NoCode, BadCode} \cup
  {TotpCode(s, TotpCounter(t) + d) : s \in KnownSecrets(us) \ {0}, d \in -2..2}

(***************************************************************************)
(* jsonwebtoken: sign adds iat and exp; verify checks the structure, then  *)
(* the signature, then the expiry.                                         *)
(***************************************************************************)
NoToken == [kind |-> "none", userId |-> 0, username |-> "", iat |-> 0, exp |-> 0, key |-> ""]
Malformed == [kind |-> "malformed", userId |-> 0, username |-> "", iat |-> 0, exp |-> 0, key |-> ""]

JwtSign(userId, username, key, t) ==
  [kind |-> "jwt", userId |-> userId, username |-> username,
   iat |-> t, exp |-> t + ExpiresIn, key |-> key]

\* Variant: a token is still accepted at the instant of its expiry.
JwtVerifyLateExpiry(token, key, t) ==
  IF token.kind # "jwt" THEN "JsonWebTokenError"
  ELSE IF token.key # key THEN "JsonWebTokenError"
  ELSE IF t > token.exp THEN "TokenExpiredError"
  ELSE "ok"

JwtVerify(token, key, t) ==
  IF token.kind # "jwt" THEN "JsonWebTokenError"
  ELSE IF token.key # key THEN "JsonWebTokenError"
  ELSE IF t >= token.exp THEN "TokenExpiredError"
  ELSE "ok"

Tamper(token) == [token EXCEPT !.key = AttackerKey]

(***************************************************************************)
(* The users table.  A row's id is its position: ids are fresh, immutable  *)
(* and rows are never deleted by any route.  created_at and updated_at are *)
(* written by the store and read by no decision of any handler; they are   *)
(* not kept in the rows.                                                   *)
(***************************************************************************)
SeedAdmin ==
  [id |-> 1, username |-> "admin", email |-> "admin@fossflow.local",
   password_hash |-> BcryptHash(PwAdmin, saltRounds, 1),
   totp_secret |-> NULL, totp_temp_secret |-> NULL,
   is_active |-> TRUE, is_admin |-> TRUE,
   last_login |-> NoTime]

Ids(us) == 1..Len(us)

SelectByEmail(us, email) == {i \in Ids(us) : us[i].email = email}

SelectByEmailOrUsername(us, email, username) ==
  {i \in Ids(us) : us[i].email = email \/ us[i].username = username}

\* Variant: the table has no UNIQUE constraint.
UniqueViolationOff(us, email, username) == FALSE

UniqueViolation(us, email, username) ==
  \E i \in Ids(us) : us[i].email = email \/ us[i].username = username

InsertUser(us, username, email, hash) ==
  Append(us, [id |-> Len(us) + 1, username |-> username, email |-> email,
              password_hash |-> hash,
              totp_secret |-> NULL, totp_temp_secret |-> NULL,
              is_active |-> TRUE, is_admin |-> FALSE,
              last_login |-> NoTime])

(***************************************************************************)
(* A handler's outcome: the store it leaves and the response it sends.     *)
(* fail names the query of the handler that throws (0: none); a thrown     *)
(* error is caught and answered with 500.                                  *)
(***************************************************************************)
Out(us, logs, status, body) ==
  [users |-> us, audit_logs |-> logs, res |-> [status |-> status, body |-> body]]

InternalError(us, logs) == Out(us, logs, 500, [error |-> "Internal server error"])

HasToken(res) == "token" \in DOMAIN res.body

(***************************************************************************)
(* POST /api/auth/register                                                 *)
(***************************************************************************)
\* The hash, the INSERT and the 201 response.
RegisterCreate(us, logs, username, email, password, salt, t) ==
  IF UniqueViolation(us, email, username) THEN InternalError(us, logs)
  ELSE LET hashedPassword == BcryptHash(password, saltRounds, salt)
           us2 == InsertUser(us, username, email, hashedPassword)
           user == us2[Len(us2)]
       IN Out(us2, logs, 201,
              [message |-> "User created successfully",
               token |-> JwtSign(user.id, user.username, JWT_SECRET, t),
               user |-> [id |-> user.id, username |-> user.username,
                         email |-> user.email, created_at |-> t]])

\* Variant: the length of the password is checked after the SELECT.
RegisterOutcomeLateValidation(us, logs, username, email, password, salt, fail, t) ==
  IF username = "" \/ email = "" \/ password = <<>>
  THEN Out(us, logs, 400, [error |-> "All fields are required"])
  ELSE IF fail = 1 THEN InternalError(us, logs)
  ELSE IF SelectByEmailOrUsername(us, email, username) # {}
  THEN Out(us, logs, 400, [error |-> "User already exists"])
  ELSE IF Len(password) < MinPasswordLength
  THEN Out(us, logs, 400, [error |-> "Password must be at least 8 characters long"])
  ELSE IF fail = 2 THEN InternalError(us, logs)
  ELSE RegisterCreate(us, logs, username, email, password, salt, t)

RegisterOutcome(us, logs, username, email, password, salt, fail, t) ==
  IF username = "" \/ email = "" \/ password = <<>>
  THEN Out(us, logs, 400, [error |-> "All fields are required"])
  ELSE IF Len(password) < MinPasswordLength
  THEN Out(us, logs, 400, [error |-> "Password must be at least 8 characters long"])
  ELSE IF fail = 1 THEN InternalError(us, logs)
  ELSE IF SelectByEmailOrUsername(us, email, username) # {}
  THEN Out(us, logs, 400, [error |-> "User already exists"])
  ELSE IF fail = 2 THEN InternalError(us, logs)
  ELSE RegisterCreate(us, logs, username, email, password, salt, t)

(***************************************************************************)
(* POST /api/auth/login                                                    *)
(***************************************************************************)
\* Variants of the second-factor check, each with one plausible slip.
LoginTotpCheckAnyCode(user, totp, t) ==
  IF user.totp_secret # NULL /\ totp = NoCode THEN "require2FA" ELSE "ok"

LoginTotpCheckNoChallenge(user, totp, t) ==
  IF user.totp_secret # NULL /\ totp # NoCode
     /\ ~TotpVerify(user.totp_secret, totp, TotpWindow, t)
  THEN "invalid"
  ELSE "ok"

LoginTotpCheckPending(user, totp, t) ==
  LET secret == IF user.totp_secret # NULL THEN user.totp_secret
                ELSE user.totp_temp_secret
  IN IF secret # NULL
     THEN IF totp = NoCode THEN "require2FA"
          ELSE IF ~TotpVerify(secret, totp, TotpWindow, t) THEN "invalid"
          ELSE "ok"
     ELSE "ok"

LoginTotpCheck(user, totp, t) ==
  IF user.totp_secret # NULL
  THEN IF totp = NoCode THEN "require2FA"
       ELSE IF ~TotpVerify(user.totp_secret, totp, TotpWindow, t) THEN "invalid"
       ELSE "ok"
  ELSE "ok"

\* Variant: the token is issued without the last_login update.
LoginSuccessNoUpdate(us, logs, user, t) ==
  Out(us, logs, 200,
      [message |-> "Login successful",
       token |-> JwtSign(user.id, user.username, JWT_SECRET, t),
       user |-> [id |-> user.id, username |-> user.username,
                 email |-> user.email, has2FA |-> user.totp_secret # NULL]])

LoginSuccess(us, logs, user, t) ==
  Out([us EXCEPT ![user.id].last_login = t], logs, 200,
      [message |-> "Login successful",
       token |-> JwtSign(user.id, user.username, JWT_SECRET, t),
       user |-> [id |-> user.id, username |-> user.username,
                 email |-> user.email, has2FA |-> user.totp_secret # NULL]])

\* Variant: an email that matches no user is answered differently.
LoginOutcomeRevealsUnknown(us, logs, email, password, totp, fail, t) ==
  IF email = "" \/ password = <<>>
  THEN Out(us, logs, 400, [error |-> "Email and password are required"])
  ELSE IF fail = 1 THEN InternalError(us, logs)
  ELSE IF SelectByEmail(us, email) = {}
  THEN Out(us, logs, 404, [error |-> "User not found"])
  ELSE LET user == us[CHOOSE i \in SelectByEmail(us, email) : TRUE]
           passwordMatch == BcryptCompare(password, user.password_hash)
           second == LoginTotpCheck(user, totp, t)
       IN IF ~passwordMatch
          THEN Out(us, logs, 401, [error |-> "Invalid credentials"])
          ELSE IF second = "require2FA"
          THEN Out(us, logs, 200, [require2FA |-> TRUE])
          ELSE IF second = "invalid"
          THEN Out(us, logs, 401, [error |-> "Invalid 2FA code"])
          ELSE IF fail = 2 THEN InternalError(us, logs)
          ELSE LoginSuccess(us, logs, user, t)

\* Variant: the second factor is handled before the password is compared.
LoginOutcomeTotpFirst(us, logs, email, password, totp, fail, t) ==
  IF email = "" \/ password = <<>>
  THEN Out(us, logs, 400, [error |-> "Email and password are required"])
  ELSE IF fail = 1 THEN InternalError(us, logs)
  ELSE IF SelectByEmail(us, email) = {}
  THEN Out(us, logs, 401, [error |-> "Invalid credentials"])
  ELSE LET user == us[CHOOSE i \in SelectByEmail(us, email) : TRUE]
           passwordMatch == BcryptCompare(password, user.password_hash)
           second == LoginTotpCheck(user, totp, t)
       IN IF second = "require2FA"
          THEN Out(us, logs, 200, [require2FA |-> TRUE])
          ELSE IF second = "invalid"
          THEN Out(us, logs, 401, [error |-> "Invalid 2FA code"])
          ELSE IF ~passwordMatch
          THEN Out(us, logs, 401, [error |-> "Invalid credentials"])
          ELSE IF fail = 2 THEN InternalError(us, logs)
          ELSE LoginSuccess(us, logs, user, t)

LoginOutcome(us, logs, email, password, totp, fail, t) ==
  IF email = "" \/ password = <<>>
  THEN Out(us, logs, 400, [error |-> "Email and password are required"])
  ELSE IF fail = 1 THEN InternalError(us, logs)
  ELSE IF SelectByEmail(us, email) = {}
  THEN Out(us, logs, 401, [error |-> "Invalid credentials"])
  ELSE LET user == us[CHOOSE i \in SelectByEmail(us, email) : TRUE]
           passwordMatch == BcryptCompare(password, user.password_hash)
           second == LoginTotpCheck(user, totp, t)
       IN IF ~passwordMatch
          THEN Out(us, logs, 401, [error |-> "Invalid credentials"])
          ELSE IF second = "require2FA"
          THEN Out(us, logs, 200, [require2FA |-> TRUE])
          ELSE IF second = "invalid"
          THEN Out(us, logs, 401, [error |-> "Invalid 2FA code"])
          ELSE IF fail = 2 THEN InternalError(us, logs)
          ELSE LoginSuccess(us, logs, user, t)

(***************************************************************************)
(* authenticateToken of server/middleware/auth.js (users and diagrams      *)
(* routers) and the authenticateToken local to server/routes/auth.js       *)
(* (setup-2fa, verify-2fa).  A rejected request never reaches the handler. *)
(***************************************************************************)
ReqUser(token) == [userId |-> token.userId, username |-> token.username,
                   iat |-> token.iat, exp |-> token.exp]

\* Variant: the middleware refuses the token of a deactivated account.
authenticateTokenChecksActive(token, t) ==
  IF token.kind = "none"
  THEN [next |-> FALSE, res |-> [status |-> 401, body |-> [error |-> "Access token required"]]]
  ELSE IF JwtVerify(token, JWT_SECRET, t) = "TokenExpiredError"
  THEN [next |-> FALSE, res |-> [status |-> 401, body |-> [error |-> "Token expired"]]]
  ELSE IF JwtVerify(token, JWT_SECRET, t) # "ok" \/ ~users[token.userId].is_active
  THEN [next |-> FALSE, res |-> [status |-> 403, body |-> [error |-> "Invalid or expired token"]]]
  ELSE [next |-> TRUE, res |-> [status |-> 0, body |-> [error |-> ""]]]

authenticateToken(token, t) ==
  IF token.kind = "none"
  THEN [next |-> FALSE, res |-> [status |-> 401, body |-> [error |-> "Access token required"]]]
  ELSE IF JwtVerify(token, JWT_SECRET, t) = "TokenExpiredError"
  THEN [next |-> FALSE, res |-> [status |-> 401, body |-> [error |-> "Token expired"]]]
  ELSE IF JwtVerify(token, JWT_SECRET, t) # "ok"
  THEN [next |-> FALSE, res |-> [status |-> 403, body |-> [error |-> "Invalid or expired token"]]]
  ELSE [next |-> TRUE, res |-> [status |-> 0, body |-> [error |-> ""]]]

authenticateTokenAuthRouter(token, t) ==
  IF token.kind = "none"
  THEN [next |-> FALSE, res |-> [status |-> 401, body |-> [error |-> "Access token required"]]]
  ELSE IF JwtVerify(token, JWT_SECRET, t) # "ok"
  THEN [next |-> FALSE, res |-> [status |-> 403, body |-> [error |-> "Invalid or expired token"]]]
  ELSE [next |-> TRUE, res |-> [status |-> 0, body |-> [error |-> ""]]]

Rejected(us, logs, auth) == [users |-> us, audit_logs |-> logs, res |-> auth.res]

(***************************************************************************)
(* POST /api/auth/setup-2fa                                                *)
(***************************************************************************)
\* Variant: the generated secret becomes the active secret at once.
Setup2faOutcomeActivates(us, logs, bearer, secret, fail, t) ==
  LET auth == authenticateTokenAuthRouter(bearer, t) IN
  IF ~auth.next THEN Rejected(us, logs, auth)
  ELSE LET userId == bearer.userId IN
       IF fail = 1 THEN InternalError(us, logs)
       ELSE Out([us EXCEPT ![userId].totp_secret = secret], logs, 200,
                [secret |-> secret,
                 qrCode |-> [issuer |-> "FossFLOW", secret |-> secret],
                 manualEntryKey |-> secret])

Setup2faOutcome(us, logs, bearer, secret, fail, t) ==
  LET auth == authenticateTokenAuthRouter(bearer, t) IN
  IF ~auth.next THEN Rejected(us, logs, auth)
  ELSE LET userId == bearer.userId IN
       IF fail = 1 THEN InternalError(us, logs)
       ELSE Out([us EXCEPT ![userId].totp_temp_secret = secret], logs, 200,
                [secret |-> secret,
                 qrCode |-> [issuer |-> "FossFLOW", secret |-> secret],
                 manualEntryKey |-> secret])

(***************************************************************************)
(* POST /api/auth/verify-2fa                                               *)
(***************************************************************************)
\* Variant: a code that does not verify abandons the pending enrollment.
Verify2faOutcomeClearsPending(us, logs, bearer, token, fail, t) ==
  LET auth == authenticateTokenAuthRouter(bearer, t) IN
  IF ~auth.next THEN Rejected(us, logs, auth)
  ELSE LET userId == bearer.userId
           tempSecret == us[userId].totp_temp_secret
       IN IF token = NoCode
          THEN Out(us, logs, 400, [error |-> "2FA token is required"])
          ELSE IF fail = 1 THEN InternalError(us, logs)
          ELSE IF tempSecret = NULL
          THEN Out(us, logs, 400, [error |-> "No 2FA setup in progress"])
          ELSE IF ~TotpVerify(tempSecret, token, TotpWindow, t)
          THEN Out([us EXCEPT ![userId].totp_temp_secret = NULL], logs, 400,
                   [error |-> "Invalid 2FA token"])
          ELSE IF fail = 2 THEN InternalError(us, logs)
          ELSE Out([us EXCEPT ![userId].totp_secret = tempSecret,
                              ![userId].totp_temp_secret = NULL],
                   logs, 200, [message |-> "2FA activated successfully"])

Verify2faOutcome(us, logs, bearer, token, fail, t) ==
  LET auth == authenticateTokenAuthRouter(bearer, t) IN
  IF ~auth.next THEN Rejected(us, logs, auth)
  ELSE LET userId == bearer.userId
           tempSecret == us[userId].totp_temp_secret
       IN IF token = NoCode
          THEN Out(us, logs, 400, [error |-> "2FA token is required"])
          ELSE IF fail = 1 THEN InternalError(us, logs)
          ELSE IF tempSecret = NULL
          THEN Out(us, logs, 400, [error |-> "No 2FA setup in progress"])
          ELSE IF ~TotpVerify(tempSecret, token, TotpWindow, t)
          THEN Out(us, logs, 400, [error |-> "Invalid 2FA token"])
          ELSE IF fail = 2 THEN InternalError(us, logs)
          ELSE Out([us EXCEPT ![userId].totp_secret = tempSecret,
                              ![userId].totp_temp_secret = NULL],
                   logs, 200, [message |-> "2FA activated successfully"])

(***************************************************************************)
(* The audit log of server/routes/users.js.                                *)
(***************************************************************************)
AuditEntry(user_id, action, resource_type, resource_id, details) ==
  [user_id |-> user_id, action |-> action, resource_type |-> resource_type,
   resource_id |-> resource_id, details |-> details]

(***************************************************************************)
(* GET /api/users/me                                                       *)
(***************************************************************************)
GetMeOutcome(us, logs, bearer, fail, t) ==
  LET auth == authenticateToken(bearer, t) IN
  IF ~auth.next THEN Rejected(us, logs, auth)
  ELSE LET userId == bearer.userId IN
       IF fail = 1 THEN InternalError(us, logs)
       ELSE IF userId \notin Ids(us)
       THEN Out(us, logs, 404, [error |-> "User not found"])
       ELSE Out(us, logs, 200,
                [id |-> userId, username |-> us[userId].username,
                 email |-> us[userId].email, is_active |-> us[userId].is_active,
                 is_admin |-> us[userId].is_admin,
                 last_login |-> us[userId].last_login,
                 has_2fa |-> us[userId].totp_secret # NULL])

(***************************************************************************)
(* GET /api/users (admin).  ILIKE '%search%' is a substring match: Within  *)
(* lists the substrings the inputs can ask for.                            *)
(***************************************************************************)
Searches == {"", "admin", "zzz"}

Within(search, text) ==
  \/ search = ""
  \/ search = text
  \/ <<search, text>> \in {<<"admin", "admin@fossflow.local">>}

Limit == 20

UserRow(row) ==
  [id |-> row.id, username |-> row.username, email |-> row.email,
   is_active |-> row.is_active, is_admin |-> row.is_admin,
   last_login |-> row.last_login, has_2fa |-> row.totp_secret # NULL]

\* Variant: the listing selects every column.
ListUsersOutcomeAllColumns(us, logs, bearer, search, fail, t) ==
  LET auth == authenticateToken(bearer, t) IN
  IF ~auth.next THEN Rejected(us, logs, auth)
  ELSE LET userId == bearer.userId IN
       IF fail = 1 THEN InternalError(us, logs)
       ELSE IF ~(userId \in Ids(us) /\ us[userId].is_admin)
       THEN Out(us, logs, 403, [error |-> "Admin access required"])
       ELSE Out(us, logs, 200,
                [users |-> us, total |-> Len(us), page |-> 1, totalPages |-> 1])

ListUsersOutcome(us, logs, bearer, search, fail, t) ==
  LET auth == authenticateToken(bearer, t) IN
  IF ~auth.next THEN Rejected(us, logs, auth)
  ELSE LET userId == bearer.userId IN
       IF fail = 1 THEN InternalError(us, logs)
       ELSE IF ~(userId \in Ids(us) /\ us[userId].is_admin)
       THEN Out(us, logs, 403, [error |-> "Admin access required"])
       ELSE LET found == SelectSeq(us, LAMBDA row : \/ Within(search, row.username)
                                                    \/ Within(search, row.email))
                newest == [i \in 1..Len(found) |-> UserRow(found[Len(found) + 1 - i])]
            IN IF fail = 2 THEN InternalError(us, logs)
               ELSE Out(us, logs, 200,
                        [users |-> SubSeq(newest, 1, IF Len(newest) < Limit
                                                     THEN Len(newest) ELSE Limit),
                         total |-> Len(found), page |-> 1,
                         totalPages |-> (Len(found) + Limit - 1) \div Limit])

(***************************************************************************)
(* POST /api/users/me/disable-2fa                                          *)
(***************************************************************************)
\* Variant: only the pending secret is cleared.
Disable2faOutcomeKeepsActive(us, logs, bearer, password, fail, t) ==
  LET auth == authenticateToken(bearer, t) IN
  IF ~auth.next THEN Rejected(us, logs, auth)
  ELSE LET userId == bearer.userId IN
       IF password = <<>>
       THEN Out(us, logs, 400, [error |-> "Password is required to disable 2FA"])
       ELSE IF fail = 1 THEN InternalError(us, logs)
       ELSE IF userId \notin Ids(us)
       THEN Out(us, logs, 404, [error |-> "User not found"])
       ELSE IF ~BcryptCompare(password, us[userId].password_hash)
       THEN Out(us, logs, 401, [error |-> "Incorrect password"])
       ELSE IF fail = 2 THEN InternalError(us, logs)
       ELSE LET us2 == [us EXCEPT ![userId].totp_temp_secret = NULL]
            IN IF fail = 3 THEN InternalError(us2, logs)
               ELSE Out(us2,
                        Append(logs, AuditEntry(userId, "disable_2fa", "user", userId, "")),
                        200, [message |-> "2FA disabled successfully"])

Disable2faOutcome(us, logs, bearer, password, fail, t) ==
  LET auth == authenticateToken(bearer, t) IN
  IF ~auth.next THEN Rejected(us, logs, auth)
  ELSE LET userId == bearer.userId IN
       IF password = <<>>
       THEN Out(us, logs, 400, [error |-> "Password is required to disable 2FA"])
       ELSE IF fail = 1 THEN InternalError(us, logs)
       ELSE IF userId \notin Ids(us)
       THEN Out(us, logs, 404, [error |-> "User not found"])
       ELSE IF ~BcryptCompare(password, us[userId].password_hash)
       THEN Out(us, logs, 401, [error |-> "Incorrect password"])
       ELSE IF fail = 2 THEN InternalError(us, logs)
       ELSE LET us2 == [us EXCEPT ![userId].totp_secret = NULL,
                                  ![userId].totp_temp_secret = NULL]
            IN IF fail = 3 THEN InternalError(us2, logs)
               ELSE Out(us2,
                        Append(logs, AuditEntry(userId, "disable_2fa", "user", userId, "")),
                        200, [message |-> "2FA disabled successfully"])

(***************************************************************************)
(* PATCH /api/users/:id/status                                             *)
(***************************************************************************)
\* Variant: the status update does not look the requester's is_admin up.
UpdateStatusOutcomeNoAdminCheck(us, logs, bearer, id, is_active, fail, t) ==
  LET auth == authenticateToken(bearer, t) IN
  IF ~auth.next THEN Rejected(us, logs, auth)
  ELSE LET adminUserId == bearer.userId IN
       IF fail = 1 THEN InternalError(us, logs)
       ELSE IF is_active = "undefined"
       THEN Out(us, logs, 400, [error |-> "is_active field is required"])
       ELSE IF fail = 2 THEN InternalError(us, logs)
       ELSE IF id \notin Ids(us)
       THEN Out(us, logs, 404, [error |-> "User not found"])
       ELSE LET us2 == [us EXCEPT ![id].is_active = (is_active = "true")]
            IN IF fail = 3 THEN InternalError(us2, logs)
               ELSE Out(us2,
                        Append(logs, AuditEntry(adminUserId, "update_user_status",
                                                "user", id, is_active)),
                        200,
                        [id |-> id, username |-> us2[id].username,
                         email |-> us2[id].email, is_active |-> us2[id].is_active])

UpdateStatusOutcome(us, logs, bearer, id, is_active, fail, t) ==
  LET auth == authenticateToken(bearer, t) IN
  IF ~auth.next THEN Rejected(us, logs, auth)
  ELSE LET adminUserId == bearer.userId IN
       IF fail = 1 THEN InternalError(us, logs)
       ELSE IF ~(adminUserId \in Ids(us) /\ us[adminUserId].is_admin)
       THEN Out(us, logs, 403, [error |-> "Admin access required"])
       ELSE IF is_active = "undefined"
       THEN Out(us, logs, 400, [error |-> "is_active field is required"])
       ELSE IF fail = 2 THEN InternalError(us, logs)
       ELSE IF id \notin Ids(us)
       THEN Out(us, logs, 404, [error |-> "User not found"])
       ELSE LET us2 == [us EXCEPT ![id].is_active = (is_active = "true")]
            IN IF fail = 3 THEN InternalError(us2, logs)
               ELSE Out(us2,
                        Append(logs, AuditEntry(adminUserId, "update_user_status",
                                                "user", id, is_active)),
                        200,
                        [id |-> id, username |-> us2[id].username,
                         email |-> us2[id].email, is_active |-> us2[id].is_active])

(***************************************************************************)
(* POST /api/users/me/change-password                                      *)
(***************************************************************************)
NewPasswords == {<<>>, PwShort, PwAdmin, PwUser}

\* Variant: the UPDATE applies only to a row nobody has written since the seed.
UpdatePasswordHashOnce(us, userId, newPasswordHash) ==
  IF us[userId].password_hash = SeedAdmin.password_hash
  THEN [us EXCEPT ![userId].password_hash = newPasswordHash]
  ELSE us

UpdatePasswordHash(us, userId, newPasswordHash) ==
  [us EXCEPT ![userId].password_hash = newPasswordHash]

\* Variant: change-password without the bcrypt.compare of the current password.
ChangePasswordOutcomeNoCompare(us, logs, bearer, currentPassword, newPassword, salt, fail, t) ==
  LET auth == authenticateToken(bearer, t) IN
  IF ~auth.next THEN Rejected(us, logs, auth)
  ELSE LET userId == bearer.userId IN
       IF currentPassword = <<>> \/ newPassword = <<>>
       THEN Out(us, logs, 400, [error |-> "Current and new passwords are required"])
       ELSE IF Len(newPassword) < MinPasswordLength
       THEN Out(us, logs, 400,
                [error |-> "New password must be at least 8 characters long"])
       ELSE IF fail = 1 THEN InternalError(us, logs)
       ELSE IF userId \notin Ids(us)
       THEN Out(us, logs, 404, [error |-> "User not found"])
       ELSE IF fail = 2 THEN InternalError(us, logs)
       ELSE LET us2 == UpdatePasswordHash(us, userId,
                                          BcryptHash(newPassword, saltRounds, salt))
            IN IF fail = 3 THEN InternalError(us2, logs)
               ELSE Out(us2,
                        Append(logs, AuditEntry(userId, "change_password", "user", userId, "")),
                        200, [message |-> "Password changed successfully"])

ChangePasswordOutcome(us, logs, bearer, currentPassword, newPassword, salt, fail, t) ==
  LET auth == authenticateToken(bearer, t) IN
  IF ~auth.next THEN Rejected(us, logs, auth)
  ELSE LET userId == bearer.userId IN
       IF currentPassword = <<>> \/ newPassword = <<>>
       THEN Out(us, logs, 400, [error |-> "Current and new passwords are required"])
       ELSE IF Len(newPassword) < MinPasswordLength
       THEN Out(us, logs, 400,
                [error |-> "New password must be at least 8 characters long"])
       ELSE IF fail = 1 THEN InternalError(us, logs)
       ELSE IF userId \notin Ids(us)
       THEN Out(us, logs, 404, [error |-> "User not found"])
       ELSE IF ~BcryptCompare(currentPassword, us[userId].password_hash)
       THEN Out(us, logs, 401, [error |-> "Current password is incorrect"])
       ELSE IF fail = 2 THEN InternalError(us, logs)
       ELSE LET us2 == UpdatePasswordHash(us, userId,
                                          BcryptHash(newPassword, saltRounds, salt))
            IN IF fail = 3 THEN InternalError(us2, logs)
               ELSE Out(us2,
                        Append(logs, AuditEntry(userId, "change_password", "user", userId, "")),
                        200, [message |-> "Password changed successfully"])

(***************************************************************************)
(* PUT /api/users/me.  A field the body does not carry is Undefined.       *)
(***************************************************************************)
Undefined == "undefined"
PutUsernames == {Undefined, "alice"}
PutEmails == {Undefined, "a@example.com"}

UsernameTaken(us, username, userId) ==
  \E i \in Ids(us) : us[i].username = username /\ us[i].id # userId

EmailTaken(us, email, userId) ==
  \E i \in Ids(us) : us[i].email = email /\ us[i].id # userId

Others(us, userId) == SelectSeq(us, LAMBDA r : r.id # userId)

UpdateProfile(us, userId, username, email) ==
  [us EXCEPT ![userId].username = IF username # Undefined THEN username ELSE @,
             ![userId].email = IF email # Undefined THEN email ELSE @]

ProfileRow(us, userId) ==
  [id |-> userId, username |-> us[userId].username, email |-> us[userId].email]

PutMeOutcome(us, logs, bearer, username, email, fail, t) ==
  LET auth == authenticateToken(bearer, t) IN
  IF ~auth.next THEN Rejected(us, logs, auth)
  ELSE LET userId == bearer.userId IN
       IF username # Undefined /\ fail = 1 THEN InternalError(us, logs)
       ELSE IF username # Undefined /\ UsernameTaken(us, username, userId)
       THEN Out(us, logs, 400, [error |-> "Username already taken"])
       ELSE IF email # Undefined /\ fail = 1 THEN InternalError(us, logs)
       ELSE IF email # Undefined /\ EmailTaken(us, email, userId)
       THEN Out(us, logs, 400, [error |-> "Email already taken"])
       ELSE IF username = Undefined /\ email = Undefined
       THEN Out(us, logs, 400, [error |-> "No fields to update"])
       ELSE IF fail = 2 \/ UniqueViolation(Others(us, userId), email, username)
       THEN InternalError(us, logs)
       ELSE LET us2 == UpdateProfile(us, userId, username, email)
            IN IF fail = 3 THEN InternalError(us2, logs)
               ELSE Out(us2,
                        Append(logs, AuditEntry(userId, "update_profile", "user", userId, "")),
                        200, ProfileRow(us2, userId))

(***************************************************************************)
(* API keys of server/routes/users.js.  The n-th key generated is          *)
(* ApiKeyOf(n): crypto.randomBytes gives a value never given before.  The  *)
(* digest is a deterministic, injective function of the key whose values   *)
(* are no raw keys.  The row of the n-th key has id n.                     *)
(***************************************************************************)
ApiKeyOf(n) == 100 + n

Sha256(apiKey) == 1000 + apiKey

ApiKeyBearer(apiKey) ==
  [kind |-> "apikey", userId |-> 0, username |-> "", iat |-> 0, exp |-> 0,
   key |-> "", apiKey |-> apiKey]

KeyNames == {"", "ci"}
ExpiresInDays == {0, 1}
KeyIds == 1..MaxApiKeys

OutKeys(us, logs, keys, status, body) ==
  [users |-> us, audit_logs |-> logs, api_keys |-> keys,
   res |-> [status |-> status, body |-> body]]

RejectedKeys(us, logs, keys, auth) ==
  [users |-> us, audit_logs |-> logs, api_keys |-> keys, res |-> auth.res]

\* The columns GET /me/api-keys selects, newest key first.
ListedRow(row) ==
  [id |-> row.id, name |-> row.name, permissions |-> row.permissions,
   last_used_at |-> row.last_used_at, expires_at |-> row.expires_at,
   is_active |-> row.is_active]

NewestFirst(rows) == [i \in 1..Len(rows) |-> rows[Len(rows) + 1 - i]]

OwnedBy(keys, userId) == SelectSeq(keys, LAMBDA row : row.user_id = userId)

\* Variant: the listing selects every column.
ListApiKeysOutcomeAllColumns(us, logs, keys, bearer, fail, t) ==
  LET auth == authenticateToken(bearer, t) IN
  IF ~auth.next THEN RejectedKeys(us, logs, keys, auth)
  ELSE IF fail = 1 THEN OutKeys(us, logs, keys, 500, [error |-> "Internal server error"])
  ELSE OutKeys(us, logs, keys, 200, NewestFirst(OwnedBy(keys, bearer.userId)))

ListApiKeysOutcome(us, logs, keys, bearer, fail, t) ==
  LET auth == authenticateToken(bearer, t) IN
  IF ~auth.next THEN RejectedKeys(us, logs, keys, auth)
  ELSE IF fail = 1 THEN OutKeys(us, logs, keys, 500, [error |-> "Internal server error"])
  ELSE LET rows == OwnedBy(keys, bearer.userId)
       IN OutKeys(us, logs, keys, 200,
                  NewestFirst([i \in 1..Len(rows) |-> ListedRow(rows[i])]))

CreateApiKeyOutcome(us, logs, keys, n, bearer, name, expiresInDays, fail, t) ==
  LET auth == authenticateToken(bearer, t) IN
  IF ~auth.next THEN RejectedKeys(us, logs, keys, auth)
  ELSE LET userId == bearer.userId IN
       IF name = ""
       THEN OutKeys(us, logs, keys, 400, [error |-> "API key name is required"])
       ELSE LET apiKey == ApiKeyOf(n)
                keyHash == Sha256(apiKey)
                expiresAt == IF expiresInDays # 0 THEN t + expiresInDays * 86400 ELSE NoTime
                row == [id |-> n, user_id |-> userId, name |-> name,
                        key_hash |-> keyHash, permissions |-> <<>>,
                        last_used_at |-> NoTime, expires_at |-> expiresAt,
                        is_active |-> TRUE]
                keys2 == Append(keys, row)
            IN IF fail = 1
               THEN OutKeys(us, logs, keys, 500, [error |-> "Internal server error"])
               ELSE IF fail = 2
               THEN OutKeys(us, logs, keys2, 500, [error |-> "Internal server error"])
               ELSE OutKeys(us,
                            Append(logs, AuditEntry(userId, "create_api_key", "api_key", n, "")),
                            keys2, 201,
                            [id |-> row.id, name |-> row.name,
                             permissions |-> row.permissions,
                             expires_at |-> row.expires_at, is_active |-> row.is_active,
                             apiKey |-> apiKey,
                             warning |-> "Save this API key securely. It will not be shown again."])

\* Variant: DELETE /users/me/api-keys/:keyId without the ownership check.
DeleteApiKeyOutcomeAnyOwner(us, logs, keys, bearer, keyId, fail, t) ==
  LET auth == authenticateToken(bearer, t) IN
  IF ~auth.next THEN RejectedKeys(us, logs, keys, auth)
  ELSE LET userId == bearer.userId
           found == SelectSeq(keys, LAMBDA row : row.id = keyId)
           keys2 == SelectSeq(keys, LAMBDA row : row.id # keyId)
       IN IF fail = 1
          THEN OutKeys(us, logs, keys, 500, [error |-> "Internal server error"])
          ELSE IF Len(found) = 0
          THEN OutKeys(us, logs, keys, 404, [error |-> "API key not found"])
          ELSE IF fail = 2
          THEN OutKeys(us, logs, keys2, 500, [error |-> "Internal server error"])
          ELSE OutKeys(us,
                       Append(logs, AuditEntry(userId, "delete_api_key", "api_key", keyId, "")),
                       keys2, 200, [message |-> "API key deleted successfully"])

DeleteApiKeyOutcome(us, logs, keys, bearer, keyId, fail, t) ==
  LET auth == authenticateToken(bearer, t) IN
  IF ~auth.next THEN RejectedKeys(us, logs, keys, auth)
  ELSE LET userId == bearer.userId
           found == SelectSeq(keys, LAMBDA row : row.id = keyId)
           keys2 == SelectSeq(keys, LAMBDA row : row.id # keyId)
       IN IF fail = 1
          THEN OutKeys(us, logs, keys, 500, [error |-> "Internal server error"])
          ELSE IF Len(found) = 0
          THEN OutKeys(us, logs, keys, 404, [error |-> "API key not found"])
          ELSE IF found[1].user_id # userId
          THEN OutKeys(us, logs, keys, 403, [error |-> "Unauthorized"])
          ELSE IF fail = 2
          THEN OutKeys(us, logs, keys2, 500, [error |-> "Internal server error"])
          ELSE OutKeys(us,
                       Append(logs, AuditEntry(userId, "delete_api_key", "api_key", keyId, "")),
                       keys2, 200, [message |-> "API key deleted successfully"])

(***************************************************************************)
(* The diagrams and diagram_versions tables.  An id is the number of the   *)
(* row among the rows ever inserted in its table: ids are never reused.    *)
(* description, tags and the timestamps are read by no decision of a       *)
(* handler and are not kept; a listing gives its rows in the order of      *)
(* their creation.  diagram_data is a number standing for a JSON document; *)
(* NullData is JSON null or a missing field of a create, UndefinedData a   *)
(* field the body of an update does not carry.                             *)
(***************************************************************************)
NullData == 0
UndefinedData == -1
FirstVersion == 1

NoSerial == [diagrams |-> 0, versions |-> 0]

DiagramIds == 1..MaxDiagrams
VersionIds == 1..MaxVersions
Titles == {"", "plan"}
PutTitles == {Undefined}
CreateData == {NullData, 1}
PutData == {UndefinedData, 2}
PublicFlags == {"undefined", "true"}

FindDiagram(ds, id) == SelectSeq(ds, LAMBDA row : row.id = id)

\* WHERE id = $1 AND (user_id = $2 OR is_public = true)
Readable(ds, id, userId) ==
  SelectSeq(ds, LAMBDA row : row.id = id /\ (row.user_id = userId \/ row.is_public))

VersionsOf(vs, id) == SelectSeq(vs, LAMBDA row : row.diagram_id = id)

OutDiagrams(logs, ds, vs, ser, status, body) ==
  [audit_logs |-> logs, diagrams |-> ds, diagram_versions |-> vs, serial |-> ser,
   res |-> [status |-> status, body |-> body]]

RejectedDiagrams(logs, ds, vs, ser, auth) ==
  [audit_logs |-> logs, diagrams |-> ds, diagram_versions |-> vs, serial |-> ser,
   res |-> auth.res]

ErrorDiagrams(logs, ds, vs, ser) ==
  OutDiagrams(logs, ds, vs, ser, 500, [error |-> "Internal server error"])

\* The trigger without its NEW.version = OLD.version + 1.
create_diagram_versionNoBump(old, new, vs, ser) ==
  IF old.diagram_data # new.diagram_data
  THEN [new |-> new,
        versions |-> Append(vs, [id |-> ser.versions + 1, diagram_id |-> new.id,
                                 version |-> new.version,
                                 diagram_data |-> old.diagram_data,
                                 created_by |-> new.user_id]),
        serial |-> [ser EXCEPT !.versions = @ + 1]]
  ELSE [new |-> new, versions |-> vs, serial |-> ser]

\* Variant: the version row is numbered with the version after the update.
create_diagram_versionNumbersNew(old, new, vs, ser) ==
  IF old.diagram_data # new.diagram_data
  THEN [new |-> [new EXCEPT !.version = old.version + 1],
        versions |-> Append(vs, [id |-> ser.versions + 1, diagram_id |-> new.id,
                                 version |-> old.version + 1,
                                 diagram_data |-> old.diagram_data,
                                 created_by |-> new.user_id]),
        serial |-> [ser EXCEPT !.versions = @ + 1]]
  ELSE [new |-> new, versions |-> vs, serial |-> ser]

\* The BEFORE UPDATE trigger create_diagram_version.
create_diagram_version(old, new, vs, ser) ==
  IF old.diagram_data # new.diagram_data
  THEN [new |-> [new EXCEPT !.version = old.version + 1],
        versions |-> Append(vs, [id |-> ser.versions + 1, diagram_id |-> new.id,
                                 version |-> new.version,
                                 diagram_data |-> old.diagram_data,
                                 created_by |-> new.user_id]),
        serial |-> [ser EXCEPT !.versions = @ + 1]]
  ELSE [new |-> new, versions |-> vs, serial |-> ser]

\* UPDATE diagrams SET ... WHERE id = $n: the trigger, then the NOT NULL
\* constraints; a statement that fails leaves both tables as they were.
UpdateDiagramRow(ds, vs, ser, id, title, diagram_data, is_public) ==
  LET old == FindDiagram(ds, id)[1]
      set == [old EXCEPT
                !.title = IF title # Undefined THEN title ELSE @,
                !.diagram_data = IF diagram_data # UndefinedData THEN diagram_data ELSE @,
                !.is_public = IF is_public # "undefined" THEN is_public = "true" ELSE @]
      fired == create_diagram_version(old, set, vs, ser)
  IN IF Len(FindDiagram(ds, id)) = 0
     THEN [ok |-> TRUE, rows |-> <<>>, diagrams |-> ds, diagram_versions |-> vs,
           serial |-> ser]
     ELSE IF fired.new.diagram_data = NullData
     THEN [ok |-> FALSE, rows |-> <<>>, diagrams |-> ds, diagram_versions |-> vs,
           serial |-> ser]
     ELSE [ok |-> TRUE, rows |-> <<fired.new>>,
           diagrams |-> [i \in 1..Len(ds) |-> IF ds[i].id = id THEN fired.new ELSE ds[i]],
           diagram_versions |-> fired.versions, serial |-> fired.serial]

\* DELETE FROM diagrams WHERE id = $1, with ON DELETE CASCADE of the versions.
DeleteDiagramRow(ds, vs, id) ==
  [diagrams |-> SelectSeq(ds, LAMBDA row : row.id # id),
   diagram_versions |-> SelectSeq(vs, LAMBDA row : row.diagram_id # id)]

(***************************************************************************)
(* server/routes/diagrams.js                                               *)
(***************************************************************************)
ListedDiagram(row) ==
  [id |-> row.id, title |-> row.title, is_public |-> row.is_public,
   version |-> row.version]

PublicDiagram(us, row) ==
  [id |-> row.id, title |-> row.title, version |-> row.version,
   author |-> us[row.user_id].username]

ListedVersion(row) ==
  [id |-> row.id, version |-> row.version, created_by |-> row.created_by]

Rows(rows, Columns(_)) == [i \in 1..Len(rows) |-> Columns(rows[i])]

\* GET /api/diagrams
\* Variant: the listing adds the public diagrams of others.
ListDiagramsOutcomeWithPublic(logs, ds, vs, ser, bearer, fail, t) ==
  LET auth == authenticateToken(bearer, t) IN
  IF ~auth.next THEN RejectedDiagrams(logs, ds, vs, ser, auth)
  ELSE LET userId == bearer.userId
           own == SelectSeq(ds, LAMBDA row : row.user_id = userId \/ row.is_public)
       IN IF fail \in {1, 2} THEN ErrorDiagrams(logs, ds, vs, ser)
          ELSE OutDiagrams(logs, ds, vs, ser, 200,
                           [diagrams |-> Rows(own, ListedDiagram), total |-> Len(own),
                            page |-> 1, totalPages |-> (Len(own) + 9) \div 10])

ListDiagramsOutcome(logs, ds, vs, ser, bearer, fail, t) ==
  LET auth == authenticateToken(bearer, t) IN
  IF ~auth.next THEN RejectedDiagrams(logs, ds, vs, ser, auth)
  ELSE LET userId == bearer.userId
           own == SelectSeq(ds, LAMBDA row : row.user_id = userId)
       IN IF fail \in {1, 2} THEN ErrorDiagrams(logs, ds, vs, ser)
          ELSE OutDiagrams(logs, ds, vs, ser, 200,
                           [diagrams |-> Rows(own, ListedDiagram), total |-> Len(own),
                            page |-> 1, totalPages |-> (Len(own) + 9) \div 10])

\* GET /api/diagrams/public (no token is asked for)
ListPublicOutcome(us, logs, ds, vs, ser, fail) ==
  IF fail = 1 THEN ErrorDiagrams(logs, ds, vs, ser)
  ELSE LET public == SelectSeq(ds, LAMBDA row : row.is_public)
       IN OutDiagrams(logs, ds, vs, ser, 200,
                      [diagrams |-> NewestFirst([i \in 1..Len(public) |->
                                                   PublicDiagram(us, public[i])]),
                       page |-> 1])

\* GET /api/diagrams/:id
GetDiagramOutcome(logs, ds, vs, ser, bearer, id, fail, t) ==
  LET auth == authenticateToken(bearer, t) IN
  IF ~auth.next THEN RejectedDiagrams(logs, ds, vs, ser, auth)
  ELSE LET rows == Readable(ds, id, bearer.userId)
       IN IF fail = 1 THEN ErrorDiagrams(logs, ds, vs, ser)
          ELSE IF Len(rows) = 0
          THEN OutDiagrams(logs, ds, vs, ser, 404, [error |-> "Diagram not found"])
          ELSE OutDiagrams(logs, ds, vs, ser, 200, rows[1])

\* POST /api/diagrams
CreateDiagramOutcome(logs, ds, vs, ser, bearer, title, diagram_data, is_public, fail, t) ==
  LET auth == authenticateToken(bearer, t) IN
  IF ~auth.next THEN RejectedDiagrams(logs, ds, vs, ser, auth)
  ELSE LET userId == bearer.userId
           row == [id |-> ser.diagrams + 1, user_id |-> userId, title |-> title,
                   diagram_data |-> diagram_data, is_public |-> is_public = "true",
                   version |-> FirstVersion]
           ds2 == Append(ds, row)
           ser2 == [ser EXCEPT !.diagrams = @ + 1]
       IN IF title = "" \/ diagram_data = NullData
          THEN OutDiagrams(logs, ds, vs, ser, 400,
                           [error |-> "Title and diagram data are required"])
          ELSE IF fail = 1 THEN ErrorDiagrams(logs, ds, vs, ser)
          ELSE IF fail = 2 THEN ErrorDiagrams(logs, ds2, vs, ser2)
          ELSE OutDiagrams(Append(logs, AuditEntry(userId, "create", "diagram", row.id, "")),
                           ds2, vs, ser2, 201, row)

\* PUT /api/diagrams/:id
\* Variant: the owner is not compared with the requester.
UpdateDiagramOutcomeNoOwnerCheck(logs, ds, vs, ser, bearer, id, title, diagram_data, is_public, fail, t) ==
  LET auth == authenticateToken(bearer, t) IN
  IF ~auth.next THEN RejectedDiagrams(logs, ds, vs, ser, auth)
  ELSE LET userId == bearer.userId
           checkResult == FindDiagram(ds, id)
           upd == UpdateDiagramRow(ds, vs, ser, id, title, diagram_data, is_public)
       IN IF fail = 1 THEN ErrorDiagrams(logs, ds, vs, ser)
          ELSE IF Len(checkResult) = 0
          THEN OutDiagrams(logs, ds, vs, ser, 404, [error |-> "Diagram not found"])
          ELSE IF title = Undefined /\ diagram_data = UndefinedData /\ is_public = "undefined"
          THEN OutDiagrams(logs, ds, vs, ser, 400, [error |-> "No fields to update"])
          ELSE IF fail = 2 \/ ~upd.ok THEN ErrorDiagrams(logs, ds, vs, ser)
          ELSE IF fail = 3
          THEN ErrorDiagrams(logs, upd.diagrams, upd.diagram_versions, upd.serial)
          ELSE OutDiagrams(Append(logs, AuditEntry(userId, "update", "diagram", id, "")),
                           upd.diagrams, upd.diagram_versions, upd.serial, 200, upd.rows[1])

UpdateDiagramOutcome(logs, ds, vs, ser, bearer, id, title, diagram_data, is_public, fail, t) ==
  LET auth == authenticateToken(bearer, t) IN
  IF ~auth.next THEN RejectedDiagrams(logs, ds, vs, ser, auth)
  ELSE LET userId == bearer.userId
           checkResult == FindDiagram(ds, id)
           upd == UpdateDiagramRow(ds, vs, ser, id, title, diagram_data, is_public)
       IN IF fail = 1 THEN ErrorDiagrams(logs, ds, vs, ser)
          ELSE IF Len(checkResult) = 0
          THEN OutDiagrams(logs, ds, vs, ser, 404, [error |-> "Diagram not found"])
          ELSE IF checkResult[1].user_id # userId
          THEN OutDiagrams(logs, ds, vs, ser, 403, [error |-> "Unauthorized"])
          ELSE IF title = Undefined /\ diagram_data = UndefinedData /\ is_public = "undefined"
          THEN OutDiagrams(logs, ds, vs, ser, 400, [error |-> "No fields to update"])
          ELSE IF fail = 2 \/ ~upd.ok THEN ErrorDiagrams(logs, ds, vs, ser)
          ELSE IF fail = 3
          THEN ErrorDiagrams(logs, upd.diagrams, upd.diagram_versions, upd.serial)
          ELSE OutDiagrams(Append(logs, AuditEntry(userId, "update", "diagram", id, "")),
                           upd.diagrams, upd.diagram_versions, upd.serial, 200, upd.rows[1])

\* DELETE /api/diagrams/:id
\* Variant: the delete writes no audit entry.
DeleteDiagramOutcomeNoAudit(logs, ds, vs, ser, bearer, id, fail, t) ==
  LET auth == authenticateToken(bearer, t) IN
  IF ~auth.next THEN RejectedDiagrams(logs, ds, vs, ser, auth)
  ELSE LET userId == bearer.userId
           checkResult == FindDiagram(ds, id)
           del == DeleteDiagramRow(ds, vs, id)
       IN IF fail = 1 THEN ErrorDiagrams(logs, ds, vs, ser)
          ELSE IF Len(checkResult) = 0
          THEN OutDiagrams(logs, ds, vs, ser, 404, [error |-> "Diagram not found"])
          ELSE IF checkResult[1].user_id # userId
          THEN OutDiagrams(logs, ds, vs, ser, 403, [error |-> "Unauthorized"])
          ELSE IF fail = 2 THEN ErrorDiagrams(logs, ds, vs, ser)
          ELSE IF fail = 3 THEN ErrorDiagrams(logs, del.diagrams, del.diagram_versions, ser)
          ELSE OutDiagrams(logs,
                           del.diagrams, del.diagram_versions, ser, 200,
                           [message |-> "Diagram deleted successfully"])

DeleteDiagramOutcome(logs, ds, vs, ser, bearer, id, fail, t) ==
  LET auth == authenticateToken(bearer, t) IN
  IF ~auth.next THEN RejectedDiagrams(logs, ds, vs, ser, auth)
  ELSE LET userId == bearer.userId
           checkResult == FindDiagram(ds, id)
           del == DeleteDiagramRow(ds, vs, id)
       IN IF fail = 1 THEN ErrorDiagrams(logs, ds, vs, ser)
          ELSE IF Len(checkResult) = 0
          THEN OutDiagrams(logs, ds, vs, ser, 404, [error |-> "Diagram not found"])
          ELSE IF checkResult[1].user_id # userId
          THEN OutDiagrams(logs, ds, vs, ser, 403, [error |-> "Unauthorized"])
          ELSE IF fail = 2 THEN ErrorDiagrams(logs, ds, vs, ser)
          ELSE IF fail = 3 THEN ErrorDiagrams(logs, del.diagrams, del.diagram_versions, ser)
          ELSE OutDiagrams(Append(logs, AuditEntry(userId, "delete", "diagram", id, "")),
                           del.diagrams, del.diagram_versions, ser, 200,
                           [message |-> "Diagram deleted successfully"])

\* GET /api/diagrams/:id/versions
GetVersionsOutcome(logs, ds, vs, ser, bearer, id, fail, t) ==
  LET auth == authenticateToken(bearer, t) IN
  IF ~auth.next THEN RejectedDiagrams(logs, ds, vs, ser, auth)
  ELSE LET checkResult == Readable(ds, id, bearer.userId)
       IN IF fail = 1 THEN ErrorDiagrams(logs, ds, vs, ser)
          ELSE IF Len(checkResult) = 0
          THEN OutDiagrams(logs, ds, vs, ser, 404, [error |-> "Diagram not found"])
          ELSE IF fail = 2 THEN ErrorDiagrams(logs, ds, vs, ser)
          ELSE OutDiagrams(logs, ds, vs, ser, 200,
                           NewestFirst(Rows(VersionsOf(vs, id), ListedVersion)))

\* POST /api/diagrams/:id/versions/:versionId/restore
\* Variant: the version is looked up by its id alone.
RestoreVersionOutcomeAnyDiagram(logs, ds, vs, ser, bearer, id, versionId, fail, t) ==
  LET auth == authenticateToken(bearer, t) IN
  IF ~auth.next THEN RejectedDiagrams(logs, ds, vs, ser, auth)
  ELSE LET userId == bearer.userId
           checkResult == FindDiagram(ds, id)
           versionResult == SelectSeq(vs, LAMBDA row : row.id = versionId)
           upd == UpdateDiagramRow(ds, vs, ser, id, Undefined,
                                   versionResult[1].diagram_data, "undefined")
       IN IF fail = 1 THEN ErrorDiagrams(logs, ds, vs, ser)
          ELSE IF Len(checkResult) = 0
          THEN OutDiagrams(logs, ds, vs, ser, 404, [error |-> "Diagram not found"])
          ELSE IF checkResult[1].user_id # userId
          THEN OutDiagrams(logs, ds, vs, ser, 403, [error |-> "Unauthorized"])
          ELSE IF fail = 2 THEN ErrorDiagrams(logs, ds, vs, ser)
          ELSE IF Len(versionResult) = 0
          THEN OutDiagrams(logs, ds, vs, ser, 404, [error |-> "Version not found"])
          ELSE IF fail = 3 \/ ~upd.ok THEN ErrorDiagrams(logs, ds, vs, ser)
          ELSE IF fail = 4
          THEN ErrorDiagrams(logs, upd.diagrams, upd.diagram_versions, upd.serial)
          ELSE OutDiagrams(Append(logs, AuditEntry(userId, "restore_version", "diagram",
                                                   id, ToString(versionId))),
                           upd.diagrams, upd.diagram_versions, upd.serial, 200, upd.rows[1])

RestoreVersionOutcome(logs, ds, vs, ser, bearer, id, versionId, fail, t) ==
  LET auth == authenticateToken(bearer, t) IN
  IF ~auth.next THEN RejectedDiagrams(logs, ds, vs, ser, auth)
  ELSE LET userId == bearer.userId
           checkResult == FindDiagram(ds, id)
           versionResult == SelectSeq(vs, LAMBDA row : row.id = versionId
                                                       /\ row.diagram_id = id)
           upd == UpdateDiagramRow(ds, vs, ser, id, Undefined,
                                   versionResult[1].diagram_data, "undefined")
       IN IF fail = 1 THEN ErrorDiagrams(logs, ds, vs, ser)
          ELSE IF Len(checkResult) = 0
          THEN OutDiagrams(logs, ds, vs, ser, 404, [error |-> "Diagram not found"])
          ELSE IF checkResult[1].user_id # userId
          THEN OutDiagrams(logs, ds, vs, ser, 403, [error |-> "Unauthorized"])
          ELSE IF fail = 2 THEN ErrorDiagrams(logs, ds, vs, ser)
          ELSE IF Len(versionResult) = 0
          THEN OutDiagrams(logs, ds, vs, ser, 404, [error |-> "Version not found"])
          ELSE IF fail = 3 \/ ~upd.ok THEN ErrorDiagrams(logs, ds, vs, ser)
          ELSE IF fail = 4
          THEN ErrorDiagrams(logs, upd.diagrams, upd.diagram_versions, upd.serial)
          ELSE OutDiagrams(Append(logs, AuditEntry(userId, "restore_version", "diagram",
                                                   id, ToString(versionId))),
                           upd.diagrams, upd.diagram_versions, upd.serial, 200, upd.rows[1])

\* No script is running.
NoScript == [script |-> "none", pc |-> "exited", status |-> 0]

(***************************************************************************)
(* startServer of server/index.js.                                         *)
(***************************************************************************)
\* A file named by SSL_KEY_PATH or SSL_CERT_PATH: absent or unreadable (also
\* when the variable is unset), readable with content that is no PEM key or
\* certificate, or readable with a valid one.
FileStates == {"missing", "garbage", "pem"}

Envs ==
  [ENABLE_HTTPS : {"undefined", "false", "true"}, key : FileStates, cert : FileStates,
   port : {"free", "in use"}]

DefaultEnv ==
  [ENABLE_HTTPS |-> "undefined", key |-> "missing", cert |-> "missing", port |-> "free"]

\* fs.readFileSync returns the content or throws.
readFileSync(file) == [thrown |-> file = "missing", content |-> file]

\* Variant: the key and the certificate are parsed at the first handshake.
createServerNoParse(key, cert) == [thrown |-> FALSE]

\* https.createServer builds the secure context from the key and the
\* certificate and throws when either does not parse.
createServer(key, cert) == [thrown |-> ~(key = "pem" /\ cert = "pem")]

\* server.listen(PORT): the listener when the port can be bound; otherwise the
\* server emits 'error', which nothing listens for, and the process ends.
listen(kind, e) ==
  IF e.port = "free"
  THEN [pc |-> "done", listeners |-> {kind}]
  ELSE [pc |-> "crashed", listeners |-> {}]

At(pc) == [pc |-> pc, listeners |-> {}]

\* startServer(), run to its end.
startServer(e) ==
  IF e.ENABLE_HTTPS = "true"
  THEN IF \/ readFileSync(e.key).thrown
          \/ readFileSync(e.cert).thrown
          \/ createServer(readFileSync(e.key).content, readFileSync(e.cert).content).thrown
       THEN listen("http", e)
       ELSE listen("https", e)
  ELSE listen("http", e)

(***************************************************************************)
(* express-rate-limit as configured for the auth router: a counter for     *)
(* each client address, all counters starting again when the window ends;  *)
(* a request is counted first and refused when its count exceeds max.  The *)
(* limiter of the whole app (server/index.js) admits 100 requests in a     *)
(* window, more than the requests followed here.                           *)
(***************************************************************************)
WindowSeconds == 900
AuthLimiterMax == 5

Clients == {"10.0.0.1", "10.0.0.2"}

NoHits == [c \in Clients |-> 0]

Counted(counter, client) == [counter EXCEPT ![client] = @ + 1]

TooManyRequests ==
  [status |-> 429,
   body |-> [message |-> "Too many authentication attempts, please try again later."]]

authLimiter(counter, client) ==
  [next |-> Counted(counter, client)[client] <= AuthLimiterMax,
   hits |-> Counted(counter, client),
   res |-> TooManyRequests]

(***************************************************************************)
(* Requests and their responses.  last keeps the operation of the latest   *)
(* request, its response, and the credentials of a login that was answered *)
(* with require2FA; after2FA marks a login that repeats those credentials. *)
(***************************************************************************)
NoCred == [email |-> "", password |-> <<>>]

\* Each user's client keeps the latest token it was sent.
Remember(res) ==
  IF HasToken(res)
  THEN held' = {tok \in held : tok.userId # res.body.token.userId}
                 \cup {res.body.token}
  ELSE held' = held

Apply(op, uid, cred, out) ==
  /\ Len(out.audit_logs) <= MaxAuditLogs
  /\ users' = out.users
  /\ audit_logs' = out.audit_logs
  /\ last' = [op |-> op, res |-> out.res,
              cred |-> IF out.res.body = [require2FA |-> TRUE] THEN cred ELSE NoCred,
              after2FA |-> op = "login" /\ cred # NoCred /\ last.cred = cred]
  /\ Remember(out.res)
  /\ now' = now
  /\ enrolled' = IF op = "verify-2fa" /\ out.res.status = 200
                 THEN enrolled \cup {uid}
                 ELSE enrolled
  /\ UNCHANGED <<api_keys, inflight, reveals, limiterVars, diagramVars, serverVars, scriptVars>>

\* Bearer values a client can send: no header, garbage, a token it holds, a
\* token it holds re-signed with another key, or a token signed with another key.
\* A handler between two of its awaits: inflight keeps, for each connection,
\* the request being handled and the await it has reached or, once answered,
\* the kind of request and its response.
Slots == {1, 2}

Idle == [kind |-> "idle", pc |-> "done"]

Answered(kind, res) == [kind |-> kind, pc |-> "done", res |-> res]

FreeSlots == {s \in Slots : inflight[s].pc = "done"}

Bearers ==
  {NoToken, Malformed, JwtSign(1, "admin", AttackerKey, now)} \cup held
    \cup {Tamper(tok) : tok \in held}

Init ==
  /\ users = <<SeedAdmin>>
  /\ audit_logs = <<>>
  /\ now = 0
  /\ held = {}
  /\ enrolled = {}
  /\ last = [op |-> "init", res |-> [status |-> 0, body |-> [error |-> ""]],
             cred |-> NoCred, after2FA |-> FALSE]
  /\ api_keys = <<>>
  /\ inflight = [s \in Slots |-> Idle]
  /\ reveals = <<>>
  /\ hits = NoHits
  /\ reached = NoHits
  /\ diagrams = <<>>
  /\ diagram_versions = <<>>
  /\ serial = NoSerial
  /\ env = DefaultEnv
  /\ server = startServer(DefaultEnv)
  /\ db = "current"
  /\ uploads = "current"
  /\ backup_dir = {}
  /\ sh = NoScript

Login ==
  \E email \in Emails, password \in LoginPasswords,
     totp \in TotpInputs(users, now), fail \in {0, 2} :
    Apply("login", 0, [email |-> email, password |-> password],
          LoginOutcome(users, audit_logs, email, password, totp, fail, now))

Setup2fa ==
  \E bearer \in Bearers, secret \in Secrets, fail \in {0, 1} :
    Apply("setup-2fa", bearer.userId, NoCred,
          Setup2faOutcome(users, audit_logs, bearer, secret, fail, now))

Verify2fa ==
  \E bearer \in Bearers, token \in TotpInputs(users, now), fail \in {0, 2} :
    Apply("verify-2fa", bearer.userId, NoCred,
          Verify2faOutcome(users, audit_logs, bearer, token, fail, now))

GetMe ==
  \E bearer \in Bearers, fail \in {0, 1} :
    Apply("get-me", bearer.userId, NoCred, GetMeOutcome(users, audit_logs, bearer, fail, now))

Disable2fa ==
  \E bearer \in Bearers, password \in LoginPasswords, fail \in {0, 3} :
    Apply("disable-2fa", bearer.userId, NoCred,
          Disable2faOutcome(users, audit_logs, bearer, password, fail, now))

UpdateStatus ==
  \E bearer \in Bearers, id \in TargetIds,
     is_active \in {"true", "false", "undefined"}, fail \in {0, 3} :
    Apply("update-status", bearer.userId, NoCred,
          UpdateStatusOutcome(users, audit_logs, bearer, id, is_active, fail, now))

\* The clock moves forward to a later instant.
Instants == {40, ExpiresIn}

Tick ==
  \E t \in Instants :
    /\ t > now
    /\ now' = t
    /\ UNCHANGED <<users, audit_logs, held, last, enrolled, api_keys, inflight, reveals,
                   limiterVars, diagramVars, serverVars, scriptVars>>

(***************************************************************************)
(* POST /register and PUT /users/me as the store sees them: one step for   *)
(* each query, other requests running between the steps.                   *)
(***************************************************************************)
RegisterBegin ==
  \E s \in FreeSlots, username \in Usernames, email \in Emails,
     password \in RegisterPasswords :
    LET out == RegisterOutcome(users, audit_logs, username, email, password, 1, 0, now)
        req == [kind |-> "register", username |-> username, email |-> email,
                password |-> password]
    IN /\ inflight' = [inflight EXCEPT ![s] =
                         IF out.res.status = 400
                         THEN Answered("register", out.res)
                         ELSE req @@ [pc |-> "insert"]]
       /\ UNCHANGED <<users, audit_logs, now, held, last, enrolled, api_keys, reveals,
                      limiterVars, diagramVars, serverVars, scriptVars>>

RegisterInsert ==
  \E s \in Slots :
    /\ inflight[s].kind = "register"
    /\ inflight[s].pc = "insert"
    /\ LET r == inflight[s]
           out == RegisterCreate(users, audit_logs, r.username, r.email,
                                 r.password, 1, now)
       IN /\ users' = out.users
          /\ inflight' = [inflight EXCEPT ![s] = Answered("register", out.res)]
          /\ Remember(out.res)
          /\ UNCHANGED <<audit_logs, now, last, enrolled, api_keys, reveals,
                         limiterVars, diagramVars, serverVars, scriptVars>>

PutMeBegin ==
  \E s \in FreeSlots, bearer \in Bearers, username \in PutUsernames,
     email \in PutEmails :
    LET auth == authenticateToken(bearer, now)
        userId == bearer.userId
        req == [kind |-> "put-me", userId |-> userId, username |-> username,
                email |-> email]
        answer(res) == Answered("put-me", res)
    IN /\ inflight' = [inflight EXCEPT ![s] =
             IF ~auth.next THEN answer(auth.res)
             ELSE IF username # Undefined
             THEN IF UsernameTaken(users, username, userId)
                  THEN answer([status |-> 400, body |-> [error |-> "Username already taken"]])
                  ELSE req @@ [pc |-> IF email # Undefined THEN "checkEmail" ELSE "update"]
             ELSE IF email # Undefined
             THEN IF EmailTaken(users, email, userId)
                  THEN answer([status |-> 400, body |-> [error |-> "Email already taken"]])
                  ELSE req @@ [pc |-> "update"]
             ELSE answer([status |-> 400, body |-> [error |-> "No fields to update"]])]
       /\ UNCHANGED <<users, audit_logs, now, held, last, enrolled, api_keys, reveals,
                      limiterVars, diagramVars, serverVars, scriptVars>>

PutMeCheckEmail ==
  \E s \in Slots :
    /\ inflight[s].kind = "put-me"
    /\ inflight[s].pc = "checkEmail"
    /\ LET r == inflight[s] IN
         inflight' = [inflight EXCEPT ![s] =
           IF EmailTaken(users, r.email, r.userId)
           THEN Answered("put-me", [status |-> 400, body |-> [error |-> "Email already taken"]])
           ELSE [r EXCEPT !.pc = "update"]]
    /\ UNCHANGED <<users, audit_logs, now, held, last, enrolled, api_keys, reveals,
                   limiterVars, diagramVars, serverVars, scriptVars>>

PutMeUpdate ==
  \E s \in Slots :
    /\ inflight[s].kind = "put-me"
    /\ inflight[s].pc = "update"
    /\ LET r == inflight[s] IN
         IF UniqueViolation(Others(users, r.userId), r.email, r.username)
         THEN /\ users' = users
              /\ inflight' = [inflight EXCEPT ![s] =
                                Answered("put-me", InternalError(users, audit_logs).res)]
         ELSE /\ users' = UpdateProfile(users, r.userId, r.username, r.email)
              /\ inflight' = [inflight EXCEPT ![s] =
                                [r EXCEPT !.pc = "audit"]
                                  @@ [row |-> ProfileRow(users', r.userId)]]
    /\ UNCHANGED <<audit_logs, now, held, last, enrolled, api_keys, reveals,
                   limiterVars, diagramVars, serverVars, scriptVars>>

PutMeAudit ==
  \E s \in Slots :
    /\ inflight[s].kind = "put-me"
    /\ inflight[s].pc = "audit"
    /\ Len(audit_logs) < MaxAuditLogs
    /\ LET r == inflight[s] IN
         /\ audit_logs' = Append(audit_logs,
                                 AuditEntry(r.userId, "update_profile", "user", r.userId, ""))
         /\ inflight' = [inflight EXCEPT ![s] =
                           Answered("put-me", [status |-> 200, body |-> r.row])]
    /\ UNCHANGED <<users, now, held, last, enrolled, api_keys, reveals,
                   limiterVars, diagramVars, serverVars, scriptVars>>

\* A login with a password and no code, the store answering its queries.
LoginPassword ==
  \E email \in Emails \ {""}, password \in LoginPasswords \ {<<>>} :
    Apply("login", 0, [email |-> email, password |-> password],
          LoginOutcome(users, audit_logs, email, password, NoCode, 0, now))

NextRegister ==
  \/ RegisterBegin
  \/ RegisterInsert
  \/ PutMeBegin
  \/ PutMeCheckEmail
  \/ PutMeUpdate
  \/ PutMeAudit
  \/ LoginPassword

SpecRegister == Init /\ [][NextRegister]_vars

(***************************************************************************)
(* POST /users/me/change-password as the store sees it: the SELECT, the    *)
(* UPDATE and the audit INSERT are separate steps.  bcrypt.hash draws a    *)
(* fresh salt for each call: FreshSalt is a salt no hash has used.         *)
(***************************************************************************)
SaltsInUse ==
  {users[i].password_hash.salt : i \in Ids(users)} \cup
  {inflight[s].newPasswordHash.salt :
     s \in {o \in Slots : "newPasswordHash" \in DOMAIN inflight[o]}}

FreshSalt == 1 + CHOOSE m \in SaltsInUse : \A n \in SaltsInUse : n <= m

ChangePasswordBegin ==
  \E s \in FreeSlots, bearer \in Bearers, currentPassword \in LoginPasswords,
     newPassword \in NewPasswords :
    LET out == ChangePasswordOutcome(users, audit_logs, bearer, currentPassword,
                                     newPassword, FreshSalt, 2, now)
    IN /\ FreshSalt <= MaxSalt
       /\ inflight' = [inflight EXCEPT ![s] =
             IF out.res.status # 500
             THEN Answered("change-password", out.res)
             ELSE [kind |-> "change-password", pc |-> "update",
                   userId |-> bearer.userId,
                   read |-> users[bearer.userId].password_hash,
                   newPasswordHash |-> BcryptHash(newPassword, saltRounds, FreshSalt)]]
       /\ UNCHANGED <<users, audit_logs, now, held, last, enrolled, api_keys, reveals,
                      limiterVars, diagramVars, serverVars, scriptVars>>

\* latest marks the request whose UPDATE of the row ran last.
ChangePasswordUpdate ==
  \E s \in Slots :
    /\ inflight[s].kind = "change-password"
    /\ inflight[s].pc = "update"
    /\ LET r == inflight[s] IN
         /\ users' = UpdatePasswordHash(users, r.userId, r.newPasswordHash)
         /\ inflight' = [o \in Slots |->
              IF o = s
              THEN [kind |-> "change-password", pc |-> "audit", userId |-> r.userId,
                    read |-> r.read, newPasswordHash |-> r.newPasswordHash,
                    latest |-> TRUE]
              ELSE IF "latest" \in DOMAIN inflight[o] /\ inflight[o].userId = r.userId
              THEN [inflight[o] EXCEPT !.latest = FALSE]
              ELSE inflight[o]]
    /\ UNCHANGED <<audit_logs, now, held, last, enrolled, api_keys, reveals,
                   limiterVars, diagramVars, serverVars, scriptVars>>

ChangePasswordAudit ==
  \E s \in Slots :
    /\ inflight[s].kind = "change-password"
    /\ inflight[s].pc = "audit"
    /\ Len(audit_logs) < MaxAuditLogs
    /\ LET r == inflight[s] IN
         /\ audit_logs' = Append(audit_logs,
                                 AuditEntry(r.userId, "change_password", "user", r.userId, ""))
         /\ inflight' = [inflight EXCEPT ![s] =
                           [r EXCEPT !.pc = "done"]
                             @@ [res |-> [status |-> 200,
                                          body |-> [message |-> "Password changed successfully"]]]]
    /\ UNCHANGED <<users, now, held, last, enrolled, api_keys, reveals,
                   limiterVars, diagramVars, serverVars, scriptVars>>

PutMe ==
  \E bearer \in Bearers, username \in PutUsernames, email \in PutEmails, fail \in {0, 3} :
    Apply("put-me", bearer.userId, NoCred,
          PutMeOutcome(users, audit_logs, bearer, username, email, fail, now))

NextPassword ==
  \/ LoginPassword
  \/ ChangePasswordBegin
  \/ ChangePasswordUpdate
  \/ ChangePasswordAudit

SpecPassword == Init /\ [][NextPassword]_vars

(***************************************************************************)
(* The account changes a token outlives: each request served alone.        *)
(***************************************************************************)
ChangePassword ==
  \E bearer \in Bearers, currentPassword \in LoginPasswords,
     newPassword \in {PwShort, PwUser}, fail \in {0, 3} :
    Apply("change-password", bearer.userId, NoCred,
          ChangePasswordOutcome(users, audit_logs, bearer, currentPassword,
                                newPassword, 2, fail, now))

NextAccount ==
  \/ LoginPassword
  \/ ChangePassword
  \/ PutMe
  \/ Disable2fa
  \/ UpdateStatus
  \/ GetMe
  \/ Tick

SpecAccount == Init /\ [][NextAccount]_vars

(***************************************************************************)
(* The API key requests, each served alone.                                *)
(***************************************************************************)
\* The raw keys and digests of the keys generated so far.
RawKeys == {ApiKeyOf(n) : n \in 1..Len(reveals)}

KeyDigests == {Sha256(k) : k \in RawKeys}

\* The numbers a response carries in its body.
Carried(op, res) ==
  IF op = "create-api-key" /\ res.status = 201
  THEN {res.body.id, res.body.expires_at, res.body.apiKey}
  ELSE IF op = "list-api-keys" /\ res.status = 200
  THEN UNION {IF "key_hash" \in DOMAIN res.body[i]
              THEN {res.body[i].id, res.body[i].expires_at, res.body[i].last_used_at,
                    res.body[i].key_hash}
              ELSE {res.body[i].id, res.body[i].expires_at, res.body[i].last_used_at}
              : i \in 1..Len(res.body)}
  ELSE {}

ApplyKeys(op, out, generated) ==
  /\ Len(out.audit_logs) <= MaxAuditLogs
  /\ users' = out.users
  /\ audit_logs' = out.audit_logs
  /\ api_keys' = out.api_keys
  /\ last' = [op |-> op, res |-> out.res, cred |-> NoCred, after2FA |-> FALSE]
  /\ reveals' = LET all == IF generated THEN Append(reveals, 0) ELSE reveals
                IN [n \in 1..Len(all) |->
                      IF ApiKeyOf(n) \in Carried(op, out.res) THEN all[n] + 1 ELSE all[n]]
  /\ UNCHANGED <<now, held, enrolled, inflight, limiterVars, diagramVars, serverVars, scriptVars>>

CreateApiKey ==
  \E bearer \in Bearers, name \in KeyNames, expiresInDays \in ExpiresInDays,
     fail \in {0, 2} :
    LET out == CreateApiKeyOutcome(users, audit_logs, api_keys, Len(reveals) + 1,
                                   bearer, name, expiresInDays, fail, now)
        generated == authenticateToken(bearer, now).next /\ name # ""
    IN /\ generated => Len(reveals) < MaxApiKeys
       /\ ApplyKeys("create-api-key", out, generated)

ListApiKeys ==
  \E bearer \in Bearers, fail \in {0, 1} :
    ApplyKeys("list-api-keys",
              ListApiKeysOutcome(users, audit_logs, api_keys, bearer, fail, now), FALSE)

DeleteApiKey ==
  \E bearer \in Bearers, keyId \in KeyIds, fail \in {0, 2} :
    ApplyKeys("delete-api-key",
              DeleteApiKeyOutcome(users, audit_logs, api_keys, bearer, keyId, fail, now),
              FALSE)

NextKeys ==
  \/ LoginPassword
  \/ CreateApiKey
  \/ ListApiKeys
  \/ DeleteApiKey

SpecKeys == Init /\ [][NextKeys]_vars

(***************************************************************************)
(* The requests whose responses describe a user, with enrollment of 2FA.   *)
(***************************************************************************)
ListUsers ==
  \E bearer \in Bearers, search \in Searches, fail \in {0, 2} :
    Apply("list-users", bearer.userId, NoCred,
          ListUsersOutcome(users, audit_logs, bearer, search, fail, now))

NextResponses ==
  \/ Login
  \/ Setup2fa
  \/ Verify2fa
  \/ GetMe
  \/ PutMe
  \/ ListUsers
  \/ UpdateStatus

SpecResponses == Init /\ [][NextResponses]_vars

(***************************************************************************)
(* POST /login as the store sees it: the SELECT, bcrypt.compare and the    *)
(* UPDATE are awaited; the second-factor check runs, without an await, in  *)
(* the continuation of bcrypt.compare.  The handler works on the row its   *)
(* SELECT returned.  An answered login keeps what its checks found:        *)
(*   matched  bcrypt.compare returned true                                 *)
(*   second   the branch of the second-factor check the request took       *)
(*   delta    distance, in steps, of the submitted code from the step of   *)
(*            the clock at the check                                       *)
(***************************************************************************)
LoginAnswered(res, matched, second, secret, totp, t) ==
  Answered("login", res) @@
    [matched |-> matched, second |-> second, secret |-> secret,
     delta |-> totp[2] - TotpCounter(t)]

\* The connection of the login that is followed step by step.
LoginSlot == 1

LoginBegin ==
  \E s \in FreeSlots \cap {LoginSlot}, email \in Emails, password \in LoginPasswords,
     totp \in TotpInputs(users, now) :
    /\ inflight' = [inflight EXCEPT ![s] =
         IF email = "" \/ password = <<>>
         THEN LoginAnswered([status |-> 400,
                             body |-> [error |-> "Email and password are required"]],
                            FALSE, "none", NULL, totp, now)
         ELSE IF SelectByEmail(users, email) = {}
         THEN LoginAnswered([status |-> 401, body |-> [error |-> "Invalid credentials"]],
                            FALSE, "none", NULL, totp, now)
         ELSE [kind |-> "login", pc |-> "compare", password |-> password, totp |-> totp,
               user |-> users[CHOOSE i \in SelectByEmail(users, email) : TRUE]]]
    /\ UNCHANGED <<users, audit_logs, now, held, last, enrolled, api_keys, reveals,
                   limiterVars, diagramVars, serverVars, scriptVars>>

LoginCompare ==
  \E s \in Slots :
    /\ inflight[s].kind = "login"
    /\ inflight[s].pc = "compare"
    /\ LET r == inflight[s]
           passwordMatch == BcryptCompare(r.password, r.user.password_hash)
           second == LoginTotpCheck(r.user, r.totp, now)
           answer(res, branch) ==
             LoginAnswered(res, passwordMatch, branch, r.user.totp_secret, r.totp, now)
       IN inflight' = [inflight EXCEPT ![s] =
            IF ~passwordMatch
            THEN answer([status |-> 401, body |-> [error |-> "Invalid credentials"]], "none")
            ELSE IF second = "require2FA"
            THEN answer([status |-> 200, body |-> [require2FA |-> TRUE]], second)
            ELSE IF second = "invalid"
            THEN answer([status |-> 401, body |-> [error |-> "Invalid 2FA code"]], second)
            ELSE [kind |-> "login", pc |-> "update", user |-> r.user,
                  matched |-> passwordMatch,
                  second |-> IF r.user.totp_secret # NULL THEN "verified" ELSE "none",
                  delta |-> r.totp[2] - TotpCounter(now)]]
    /\ UNCHANGED <<users, audit_logs, now, held, last, enrolled, api_keys, reveals,
                   limiterVars, diagramVars, serverVars, scriptVars>>

LoginUpdate ==
  \E s \in Slots :
    /\ inflight[s].kind = "login"
    /\ inflight[s].pc = "update"
    /\ LET r == inflight[s]
           out == LoginSuccess(users, audit_logs, r.user, now)
       IN /\ users' = out.users
          /\ inflight' = [inflight EXCEPT ![s] =
               Answered("login", out.res) @@
                 [matched |-> r.matched, second |-> r.second,
                  secret |-> r.user.totp_secret, delta |-> r.delta]]
          /\ Remember(out.res)
    /\ UNCHANGED <<audit_logs, now, last, enrolled, api_keys, reveals,
                   limiterVars, diagramVars, serverVars, scriptVars>>

NextLogin ==
  \/ LoginBegin
  \/ LoginCompare
  \/ LoginUpdate
  \/ Setup2fa
  \/ Verify2fa
  \/ Tick

SpecLogin == Init /\ [][NextLogin]_vars

(***************************************************************************)
(* The auth router behind its limiter: register and login pass through     *)
(* authLimiter, setup-2fa and verify-2fa through authenticateToken only.   *)
(***************************************************************************)
ApplyAuth(op, client, limit, ran, out) ==
  LET served == limit.next /\ ran
      answer == IF limit.next THEN out ELSE [out EXCEPT !.res = limit.res]
  IN /\ limit.hits[client] <= MaxRequests
     /\ reached[client] < MaxRequests
     /\ hits' = limit.hits
     /\ reached' = IF served THEN Counted(reached, client) ELSE reached
     /\ users' = answer.users
     /\ audit_logs' = answer.audit_logs
     /\ last' = [op |-> op, res |-> answer.res, cred |-> NoCred, after2FA |-> FALSE]
     /\ Remember(answer.res)
     /\ UNCHANGED <<now, enrolled, api_keys, inflight, reveals, diagramVars, serverVars, scriptVars>>

\* A request the limiter refuses never reaches the handler.
Refused(limit) == Rejected(users, audit_logs, limit)

LimitedRegister ==
  \E client \in Clients :
    LET limit == authLimiter(hits, client) IN
    ApplyAuth("register", client, limit, TRUE,
              IF limit.next
              THEN RegisterOutcome(users, audit_logs, "alice", "a@example.com",
                                   PwUser, 1, 0, now)
              ELSE Refused(limit))

LimitedLogin ==
  \E client \in Clients :
    LET limit == authLimiter(hits, client) IN
    ApplyAuth("login", client, limit, TRUE,
              IF limit.next
              THEN LoginOutcome(users, audit_logs, "admin@fossflow.local", PwAdmin,
                                NoCode, 0, now)
              ELSE Refused(limit))

\* No limiter is mounted on these two routes: the request is not counted.
Unlimited == [next |-> TRUE, hits |-> hits, res |-> TooManyRequests]

ClientSetup2fa ==
  \E client \in Clients, bearer \in held \cup {NoToken} :
    ApplyAuth("setup-2fa", client, Unlimited, authenticateTokenAuthRouter(bearer, now).next,
              Setup2faOutcome(users, audit_logs, bearer, 1, 0, now))

ClientVerify2fa ==
  \E client \in Clients, bearer \in held \cup {NoToken} :
    ApplyAuth("verify-2fa", client, Unlimited, authenticateTokenAuthRouter(bearer, now).next,
              Verify2faOutcome(users, audit_logs, bearer, BadCode, 0, now))

\* The window ends: the limiter's store forgets every count.
WindowEnds ==
  /\ now < MaxWindows * WindowSeconds
  /\ now' = (now \div WindowSeconds + 1) * WindowSeconds
  /\ hits' = NoHits
  /\ reached' = NoHits
  /\ UNCHANGED <<users, audit_logs, held, last, enrolled, api_keys, inflight, reveals,
                 diagramVars, serverVars, scriptVars>>

NextLimiter ==
  \/ LimitedRegister
  \/ LimitedLogin
  \/ ClientSetup2fa
  \/ ClientVerify2fa
  \/ WindowEnds

SpecLimiter == Init /\ [][NextLimiter]_vars

(***************************************************************************)
(* The diagrams router, each request served alone, for two users who hold  *)
(* tokens: InitDiagrams is the store as POST /register of alice and POST   *)
(* /login of the admin leave it.                                           *)
(***************************************************************************)
Registered ==
  RegisterOutcome(<<SeedAdmin>>, <<>>, "alice", "a@example.com", PwUser, 1, 0, 0)

LoggedIn ==
  LoginOutcome(Registered.users, Registered.audit_logs, "admin@fossflow.local",
               PwAdmin, NoCode, 0, 0)

InitDiagrams ==
  /\ users = LoggedIn.users
  /\ audit_logs = LoggedIn.audit_logs
  /\ now = 0
  /\ held = {Registered.res.body.token, LoggedIn.res.body.token}
  /\ enrolled = {}
  /\ last = [op |-> "login", res |-> LoggedIn.res, cred |-> NoCred, after2FA |-> FALSE]
  /\ api_keys = <<>>
  /\ inflight = [s \in Slots |-> Idle]
  /\ reveals = <<>>
  /\ hits = NoHits
  /\ reached = NoHits
  /\ diagrams = <<>>
  /\ diagram_versions = <<>>
  /\ serial = NoSerial
  /\ env = DefaultEnv
  /\ server = startServer(DefaultEnv)
  /\ db = "current"
  /\ uploads = "current"
  /\ backup_dir = {}
  /\ sh = NoScript

Requesters == held \cup {NoToken}

\* last.req keeps the requester and the diagram the request named.
ApplyDiagrams(op, bearer, id, out) ==
  /\ Len(out.audit_logs) <= MaxDiagramLogs
  /\ out.serial.diagrams <= MaxDiagrams
  /\ out.serial.versions <= MaxVersions
  /\ audit_logs' = out.audit_logs
  /\ diagrams' = out.diagrams
  /\ diagram_versions' = out.diagram_versions
  /\ serial' = out.serial
  /\ last' = [op |-> op, res |-> out.res, cred |-> NoCred, after2FA |-> FALSE,
              req |-> [userId |-> bearer.userId, id |-> id]]
  /\ UNCHANGED <<users, now, held, enrolled, api_keys, inflight, reveals,
                 limiterVars, serverVars, scriptVars>>

CreateDiagram ==
  \E bearer \in Requesters, title \in Titles, diagram_data \in CreateData,
     is_public \in PublicFlags :
    ApplyDiagrams("create-diagram", bearer, serial.diagrams + 1,
                  CreateDiagramOutcome(audit_logs, diagrams, diagram_versions, serial,
                                       bearer, title, diagram_data, is_public, 0, now))

UpdateDiagram ==
  \E bearer \in Requesters, id \in DiagramIds, title \in PutTitles,
     diagram_data \in PutData, is_public \in PublicFlags :
    ApplyDiagrams("update-diagram", bearer, id,
                  UpdateDiagramOutcome(audit_logs, diagrams, diagram_versions, serial,
                                       bearer, id, title, diagram_data, is_public, 0, now))

DeleteDiagram ==
  \E bearer \in Requesters, id \in DiagramIds :
    ApplyDiagrams("delete-diagram", bearer, id,
                  DeleteDiagramOutcome(audit_logs, diagrams, diagram_versions, serial,
                                       bearer, id, 0, now))

RestoreVersion ==
  \E bearer \in Requesters, id \in DiagramIds, versionId \in VersionIds :
    ApplyDiagrams("restore-version", bearer, id,
                  RestoreVersionOutcome(audit_logs, diagrams, diagram_versions, serial,
                                        bearer, id, versionId, 0, now))

GetDiagram ==
  \E bearer \in Requesters, id \in DiagramIds :
    ApplyDiagrams("get-diagram", bearer, id,
                  GetDiagramOutcome(audit_logs, diagrams, diagram_versions, serial,
                                    bearer, id, 0, now))

GetVersions ==
  \E bearer \in Requesters, id \in DiagramIds :
    ApplyDiagrams("get-versions", bearer, id,
                  GetVersionsOutcome(audit_logs, diagrams, diagram_versions, serial,
                                     bearer, id, 0, now))

ListDiagrams ==
  \E bearer \in Requesters :
    ApplyDiagrams("list-diagrams", bearer, 0,
                  ListDiagramsOutcome(audit_logs, diagrams, diagram_versions, serial,
                                      bearer, 0, now))

ListPublic ==
  ApplyDiagrams("list-public", NoToken, 0,
                ListPublicOutcome(users, audit_logs, diagrams, diagram_versions, serial, 0))

NextDiagrams ==
  \/ CreateDiagram
  \/ UpdateDiagram
  \/ DeleteDiagram
  \/ RestoreVersion
  \/ GetDiagram
  \/ GetVersions
  \/ ListDiagrams
  \/ ListPublic

SpecDiagrams == InitDiagrams /\ [][NextDiagrams]_vars

(***************************************************************************)
(* The two admin-only requests of the users router, with an administrator  *)
(* and an ordinary user both holding a token.                              *)
(***************************************************************************)
NextAdmin ==
  \/ ListUsers
  \/ UpdateStatus
  \/ Tick

SpecAdmin == InitDiagrams /\ [][NextAdmin]_vars

(***************************************************************************)
(* Every mutating request of the users and diagrams routers, each served   *)
(* alone with the store answering every query, for the two token holders.  *)
(***************************************************************************)
ApplyAudited(op, bearer, id, out, keys, generated) ==
  /\ Len(out.audit_logs) <= MaxAccountLogs
  /\ generated => Len(reveals) < MaxApiKeys
  /\ users' = out.users
  /\ audit_logs' = out.audit_logs
  /\ api_keys' = keys
  /\ reveals' = IF generated THEN Append(reveals, 1) ELSE reveals
  /\ last' = [op |-> op, res |-> out.res, cred |-> NoCred, after2FA |-> FALSE,
              req |-> [userId |-> bearer.userId, id |-> id]]
  /\ UNCHANGED <<now, held, enrolled, inflight, limiterVars, diagramVars, serverVars, scriptVars>>

AuditedPutMe ==
  \E bearer \in Requesters, username \in PutUsernames :
    ApplyAudited("put-me", bearer, bearer.userId,
                 PutMeOutcome(users, audit_logs, bearer, username, Undefined, 0, now),
                 api_keys, FALSE)

AuditedChangePassword ==
  \E bearer \in Requesters, newPassword \in {PwShort, PwUser} :
    ApplyAudited("change-password", bearer, bearer.userId,
                 ChangePasswordOutcome(users, audit_logs, bearer, PwAdmin, newPassword,
                                       2, 0, now),
                 api_keys, FALSE)

AuditedDisable2fa ==
  \E bearer \in Requesters :
    ApplyAudited("disable-2fa", bearer, bearer.userId,
                 Disable2faOutcome(users, audit_logs, bearer, PwUser, 0, now),
                 api_keys, FALSE)

AuditedUpdateStatus ==
  \E bearer \in Requesters, is_active \in {"false", "undefined"} :
    ApplyAudited("update-status", bearer, 2,
                 UpdateStatusOutcome(users, audit_logs, bearer, 2, is_active, 0, now),
                 api_keys, FALSE)

AuditedCreateApiKey ==
  \E bearer \in Requesters, name \in KeyNames :
    LET out == CreateApiKeyOutcome(users, audit_logs, api_keys, Len(reveals) + 1,
                                   bearer, name, 0, 0, now)
    IN ApplyAudited("create-api-key", bearer, Len(reveals) + 1, out, out.api_keys,
                    authenticateToken(bearer, now).next /\ name # "")

AuditedDeleteApiKey ==
  \E bearer \in Requesters, keyId \in KeyIds :
    LET out == DeleteApiKeyOutcome(users, audit_logs, api_keys, bearer, keyId, 0, now)
    IN ApplyAudited("delete-api-key", bearer, keyId, out, out.api_keys, FALSE)

NextAudit ==
  \/ AuditedPutMe
  \/ AuditedChangePassword
  \/ AuditedDisable2fa
  \/ AuditedUpdateStatus
  \/ AuditedCreateApiKey
  \/ AuditedDeleteApiKey
  \/ CreateDiagram
  \/ UpdateDiagram
  \/ DeleteDiagram
  \/ RestoreVersion

SpecAudit == InitDiagrams /\ [][NextAudit]_vars

(***************************************************************************)
(* startServer() statement by statement, for every environment.            *)
(***************************************************************************)
InitServer ==
  /\ users = <<SeedAdmin>>
  /\ audit_logs = <<>>
  /\ now = 0
  /\ held = {}
  /\ enrolled = {}
  /\ last = [op |-> "init", res |-> [status |-> 0, body |-> [error |-> ""]],
             cred |-> NoCred, after2FA |-> FALSE]
  /\ api_keys = <<>>
  /\ inflight = [s \in Slots |-> Idle]
  /\ reveals = <<>>
  /\ hits = NoHits
  /\ reached = NoHits
  /\ diagrams = <<>>
  /\ diagram_versions = <<>>
  /\ serial = NoSerial
  /\ env \in Envs
  /\ server = At("start")
  /\ db = "current"
  /\ uploads = "current"
  /\ backup_dir = {}
  /\ sh = NoScript

\* Everything but startServer's own position and listeners.
storeVars ==
  <<users, audit_logs, now, held, last, enrolled, api_keys, inflight, reveals,
    limiterVars, diagramVars, env, scriptVars>>

CheckEnableHttps ==
  /\ server.pc = "start"
  /\ server' = IF env.ENABLE_HTTPS = "true" THEN At("read key") ELSE At("listen http")
  /\ UNCHANGED storeVars

ReadKey ==
  /\ server.pc = "read key"
  /\ server' = IF readFileSync(env.key).thrown THEN At("catch") ELSE At("read cert")
  /\ UNCHANGED storeVars

ReadCert ==
  /\ server.pc = "read cert"
  /\ server' = IF readFileSync(env.cert).thrown THEN At("catch") ELSE At("create https")
  /\ UNCHANGED storeVars

CreateHttps ==
  /\ server.pc = "create https"
  /\ server' = IF createServer(readFileSync(env.key).content,
                               readFileSync(env.cert).content).thrown
               THEN At("catch")
               ELSE At("listen https")
  /\ UNCHANGED storeVars

ListenHttps ==
  /\ server.pc = "listen https"
  /\ server' = listen("https", env)
  /\ UNCHANGED storeVars

FallBack ==
  /\ server.pc = "catch"
  /\ server' = At("listen http")
  /\ UNCHANGED storeVars

ListenHttp ==
  /\ server.pc = "listen http"
  /\ server' = listen("http", env)
  /\ UNCHANGED storeVars

NextServer ==
  \/ CheckEnableHttps
  \/ ReadKey
  \/ ReadCert
  \/ CreateHttps
  \/ ListenHttps
  \/ FallBack
  \/ ListenHttp

SpecServer == InitServer /\ [][NextServer]_vars

(***************************************************************************)
(* scripts/restore.sh, statement by statement.  The script runs under      *)
(* set -e: a failing simple command, pipeline or function call that is not *)
(* a condition ends the script with a non-zero status.                     *)
(*   sh.args      "none", "list", "db" (a database backup), "db+files",    *)
(*                "files" (an empty first argument and a files backup)     *)
(*   sh.dbFile, sh.filesFile   the named backup file: missing, present but *)
(*                not restorable, or good                                  *)
(*   sh.dropdb, sh.createdb    whether the command will succeed (dropdb    *)
(*                fails while other sessions use the database)             *)
(***************************************************************************)
BackupFileStates == {"missing", "corrupt", "good"}

RestoreRuns ==
  [script : {"restore.sh"}, pc : {"main"}, status : {0},
   args : {"none", "list", "db", "db+files", "files"},
   dbFile : BackupFileStates, filesFile : BackupFileStates,
   dropdb : BOOLEAN, createdb : BOOLEAN]

\* The files of /backups that the arguments name, dumps of an earlier state.
Given(run) ==
  {[name |-> "db_backup", content |-> run.dbFile, of |-> "earlier"] :
     x \in IF run.args \in {"db", "db+files"} /\ run.dbFile # "missing" THEN {1} ELSE {}}
  \cup
  {[name |-> "files_backup", content |-> run.filesFile, of |-> "earlier"] :
     x \in IF run.args \in {"db+files", "files"} /\ run.filesFile # "missing"
           THEN {1} ELSE {}}

InitRestore ==
  /\ users = <<SeedAdmin>>
  /\ audit_logs = <<>>
  /\ now = 0
  /\ held = {}
  /\ enrolled = {}
  /\ last = [op |-> "init", res |-> [status |-> 0, body |-> [error |-> ""]],
             cred |-> NoCred, after2FA |-> FALSE]
  /\ api_keys = <<>>
  /\ inflight = [s \in Slots |-> Idle]
  /\ reveals = <<>>
  /\ hits = NoHits
  /\ reached = NoHits
  /\ diagrams = <<>>
  /\ diagram_versions = <<>>
  /\ serial = NoSerial
  /\ env = DefaultEnv
  /\ server = startServer(DefaultEnv)
  /\ db = "current"
  /\ uploads = "current"
  /\ sh \in RestoreRuns
  /\ backup_dir = Given(sh)

\* Everything the scripts do not touch.
appVars ==
  <<users, audit_logs, now, held, last, enrolled, api_keys, inflight, reveals,
    limiterVars, diagramVars, serverVars>>

Goto(pc) == [sh EXCEPT !.pc = pc]

Exit(status) == [sh EXCEPT !.pc = "exited", !.status = status]

\* main, lines 90-111: usage, --list, or the database restore if a first
\* argument was given.
RestoreMain ==
  /\ sh.script = "restore.sh"
  /\ sh.pc = "main"
  /\ sh' = IF sh.args = "none" THEN Exit(1)
           ELSE IF sh.args = "list" THEN Exit(0)
           ELSE IF sh.args = "files" THEN Goto("restore_files")
           ELSE Goto("restore_database")
  /\ UNCHANGED <<db, uploads, backup_dir, appVars>>

\* restore_database, lines 29-32.
RestoreCheckFile ==
  /\ sh.script = "restore.sh"
  /\ sh.pc = "restore_database"
  /\ sh' = IF sh.dbFile = "missing" THEN Exit(1) ELSE Goto("dropdb")
  /\ UNCHANGED <<db, uploads, backup_dir, appVars>>

\* dropdb, line 37.
RestoreDropdb ==
  /\ sh.script = "restore.sh"
  /\ sh.pc = "dropdb"
  /\ IF sh.dropdb
     THEN db' = "dropped" /\ sh' = Goto("createdb")
     ELSE db' = db /\ sh' = Exit(1)
  /\ UNCHANGED <<uploads, backup_dir, appVars>>

\* createdb, line 38.
RestoreCreatedb ==
  /\ sh.script = "restore.sh"
  /\ sh.pc = "createdb"
  /\ IF sh.createdb
     THEN db' = "empty" /\ sh' = Goto("pg_restore")
     ELSE db' = db /\ sh' = Exit(1)
  /\ UNCHANGED <<uploads, backup_dir, appVars>>

\* gunzip | pg_restore, lines 41-53: a file that does not restore leaves the
\* new database empty or with part of the dump.
RestorePgRestore ==
  /\ sh.script = "restore.sh"
  /\ sh.pc = "pg_restore"
  /\ IF sh.dbFile = "good"
     THEN /\ db' = "earlier"
          /\ sh' = IF sh.args = "db+files" THEN Goto("restore_files") ELSE Exit(0)
     ELSE /\ db' \in {"empty", "partial"}
          /\ sh' = Exit(1)
  /\ UNCHANGED <<uploads, backup_dir, appVars>>

\* restore_files, lines 61-82.
RestoreFiles ==
  /\ sh.script = "restore.sh"
  /\ sh.pc = "restore_files"
  /\ IF sh.filesFile = "missing"
     THEN uploads' = uploads /\ sh' = Exit(1)
     ELSE IF sh.filesFile = "good"
     THEN uploads' = "earlier" /\ sh' = Exit(0)
     ELSE uploads' \in {"removed", "partial"} /\ sh' = Exit(1)
  /\ UNCHANGED <<db, backup_dir, appVars>>

NextRestore ==
  \/ RestoreMain
  \/ RestoreCheckFile
  \/ RestoreDropdb
  \/ RestoreCreatedb
  \/ RestorePgRestore
  \/ RestoreFiles

SpecRestore == InitRestore /\ [][NextRestore]_vars

(***************************************************************************)
(* scripts/backup.sh, statement by statement.                              *)
(*   sh.pg_dump   whether pg_dump will succeed                             *)
(*   sh.disk      /backups when the dump is written: "ok", "unwritable"    *)
(*                (the redirection fails) or "full" (the file is created   *)
(*                and gzip fails)                                          *)
(*   sh.files     whether /app/uploads holds files; sh.tar whether tar     *)
(*                will succeed                                             *)
(*   sh.db_backup, sh.files_backup   what $(...) captured: the lines the   *)
(*                function wrote to its standard output                    *)
(***************************************************************************)
RetentionDays == 30

\* log echoes to the standard output.
log(message) == <<message>>

DbBackupFile == "/backups/fossflow_db_DATE.sql.gz"
FilesBackupFile == "/backups/fossflow_files_DATE.tar.gz"

NewFile(name, content) == [name |-> name, content |-> content, of |-> "current", age |-> 0]

\* A backup of an earlier day, older than the retention.
StaleFile ==
  [name |-> "/backups/fossflow_db_OLD.sql.gz", content |-> "good", of |-> "earlier",
   age |-> RetentionDays + 1]

BackupRuns ==
  [script : {"backup.sh"}, pc : {"main"}, status : {0},
   pg_dump : BOOLEAN, disk : {"ok", "unwritable", "full"}, files : BOOLEAN,
   tar : BOOLEAN,
   success : {TRUE}, db_backup : {<<>>}, files_backup : {<<>>}, backup_files : {<<>>},
   cleaned : {FALSE}, notified : {"none"}]

\* backup_database, lines 146-167: the pipeline's status is gzip's.  $? is 0
\* whenever gzip could write, also when pg_dump failed and gzip compressed
\* nothing.
backup_database(run) ==
  LET started == log("Starting database backup...") IN
  IF run.disk = "unwritable"
  THEN [status |-> 1, written |-> {},
        stdout |-> started \o log("ERROR: Database backup failed")]
  ELSE IF run.disk = "full"
  THEN [status |-> 1, written |-> {NewFile(DbBackupFile, "")},
        stdout |-> started \o log("ERROR: Database backup failed")]
  ELSE [status |-> 0,
        written |-> {NewFile(DbBackupFile, IF run.pg_dump THEN "good" ELSE "no dump")},
        stdout |-> started \o log("Database backup completed") \o <<DbBackupFile>>]

\* backup_files, lines 170-189.
backup_files(run) ==
  LET started == log("Starting files backup...") IN
  IF ~run.files
  THEN [status |-> 0, written |-> {}, stdout |-> started \o log("No files to backup")]
  ELSE IF run.tar
  THEN [status |-> 0, written |-> {NewFile(FilesBackupFile, "good")},
        stdout |-> started \o log("Files backup completed") \o <<FilesBackupFile>>]
  ELSE [status |-> 1, written |-> {}, stdout |-> started \o log("ERROR: Files backup failed")]

\* verify_backup, lines 201-211: [ -f "$backup_file" ] && [ -s "$backup_file" ]
\* with the captured text as the file name; text of several lines names no
\* file of /backups.
verify_backup(captured, dir) ==
  /\ Len(captured) = 1
  /\ \E f \in dir : f.name = captured[1] /\ f.content # ""

InitBackup ==
  /\ users = <<SeedAdmin>>
  /\ audit_logs = <<>>
  /\ now = 0
  /\ held = {}
  /\ enrolled = {}
  /\ last = [op |-> "init", res |-> [status |-> 0, body |-> [error |-> ""]],
             cred |-> NoCred, after2FA |-> FALSE]
  /\ api_keys = <<>>
  /\ inflight = [s \in Slots |-> Idle]
  /\ reveals = <<>>
  /\ hits = NoHits
  /\ reached = NoHits
  /\ diagrams = <<>>
  /\ diagram_versions = <<>>
  /\ serial = NoSerial
  /\ env = DefaultEnv
  /\ server = startServer(DefaultEnv)
  /\ db = "current"
  /\ uploads = "current"
  /\ sh \in BackupRuns
  /\ backup_dir \in {{}, {StaleFile}}

\* main, lines 239-244: if db_backup=$(backup_database).
BackupDatabase ==
  /\ sh.script = "backup.sh"
  /\ sh.pc = "main"
  /\ LET r == backup_database(sh) IN
       /\ backup_dir' = backup_dir \cup r.written
       /\ sh' = IF r.status = 0
                THEN [sh EXCEPT !.pc = "verify db", !.db_backup = r.stdout,
                                !.backup_files = Append(@, r.stdout)]
                ELSE [sh EXCEPT !.pc = "backup_files", !.db_backup = r.stdout,
                                !.success = FALSE]
  /\ UNCHANGED <<db, uploads, appVars>>

\* main, line 241: verify_backup "$db_backup" || success=false.
BackupVerifyDb ==
  /\ sh.script = "backup.sh"
  /\ sh.pc = "verify db"
  /\ sh' = [sh EXCEPT !.pc = "backup_files",
                      !.success = @ /\ verify_backup(sh.db_backup, backup_dir)]
  /\ UNCHANGED <<db, uploads, backup_dir, appVars>>

\* main, lines 247-250: if files_backup=$(backup_files); a failing tar is not
\* counted.
BackupFiles ==
  /\ sh.script = "backup.sh"
  /\ sh.pc = "backup_files"
  /\ LET r == backup_files(sh) IN
       /\ backup_dir' = backup_dir \cup r.written
       /\ sh' = IF r.status = 0
                THEN [sh EXCEPT !.pc = "verify files", !.files_backup = r.stdout,
                                !.backup_files = Append(@, r.stdout)]
                ELSE [sh EXCEPT !.pc = "cleanup", !.files_backup = r.stdout]
  /\ UNCHANGED <<db, uploads, appVars>>

\* main, line 249.
BackupVerifyFiles ==
  /\ sh.script = "backup.sh"
  /\ sh.pc = "verify files"
  /\ sh' = [sh EXCEPT !.pc = "cleanup",
                      !.success = @ /\ verify_backup(sh.files_backup, backup_dir)]
  /\ UNCHANGED <<db, uploads, backup_dir, appVars>>

\* cleanup_old_backups, lines 192-198.
BackupCleanup ==
  /\ sh.script = "backup.sh"
  /\ sh.pc = "cleanup"
  /\ backup_dir' = {f \in backup_dir : ~(f.age > RetentionDays)}
  /\ sh' = [sh EXCEPT !.pc = "notify", !.cleaned = TRUE]
  /\ UNCHANGED <<db, uploads, appVars>>

\* main, lines 256-263.
BackupNotify ==
  /\ sh.script = "backup.sh"
  /\ sh.pc = "notify"
  /\ sh' = IF sh.success
           THEN [sh EXCEPT !.pc = "exited", !.status = 0, !.notified = "SUCCESS"]
           ELSE [sh EXCEPT !.pc = "exited", !.status = 1, !.notified = "FAILED"]
  /\ UNCHANGED <<db, uploads, backup_dir, appVars>>

NextBackup ==
  \/ BackupDatabase
  \/ BackupVerifyDb
  \/ BackupFiles
  \/ BackupVerifyFiles
  \/ BackupCleanup
  \/ BackupNotify

SpecBackup == InitBackup /\ [][NextBackup]_vars

(***************************************************************************)
(* POST /verify-2fa as the store sees it: the SELECT of totp_temp_secret   *)
(* and the UPDATE that promotes it are awaited separately, and the UPDATE  *)
(* writes the value the SELECT returned.  Other requests of the user are   *)
(* served between the two.                                                 *)
(*   tempSecret  the value the SELECT returned                             *)
(*   pending     totp_temp_secret of the row when the UPDATE ran           *)
(***************************************************************************)
Verify2faBegin ==
  \E s \in FreeSlots, bearer \in held, token \in TotpInputs(users, now) :
    LET out == Verify2faOutcome(users, audit_logs, bearer, token, 2, now) IN
    /\ inflight' = [inflight EXCEPT ![s] =
         IF out.res.status # 500
         THEN Answered("verify-2fa", out.res)
         ELSE [kind |-> "verify-2fa", pc |-> "update", userId |-> bearer.userId,
               tempSecret |-> users[bearer.userId].totp_temp_secret]]
    /\ UNCHANGED <<users, audit_logs, now, held, last, enrolled, api_keys, reveals,
                   limiterVars, diagramVars, serverVars, scriptVars>>

Verify2faUpdate ==
  \E s \in Slots :
    /\ inflight[s].kind = "verify-2fa"
    /\ inflight[s].pc = "update"
    /\ LET r == inflight[s] IN
         /\ users' = [users EXCEPT ![r.userId].totp_secret = r.tempSecret,
                                   ![r.userId].totp_temp_secret = NULL]
         /\ inflight' = [inflight EXCEPT ![s] =
              Answered("verify-2fa",
                       [status |-> 200,
                        body |-> [message |-> "2FA activated successfully"]]) @@
                [userId |-> r.userId, tempSecret |-> r.tempSecret,
                 pending |-> users[r.userId].totp_temp_secret]]
    /\ UNCHANGED <<audit_logs, now, held, last, enrolled, api_keys, reveals,
                   limiterVars, diagramVars, serverVars, scriptVars>>

NextPromotion ==
  \/ LoginPassword
  \/ Setup2fa
  \/ Verify2faBegin
  \/ Verify2faUpdate
  \/ Disable2fa

SpecPromotion == Init /\ [][NextPromotion]_vars

(***************************************************************************)
(* PUT /diagrams/:id and POST /diagrams/:id/versions/:versionId/restore,   *)
(* one await at a time, so that requests on one diagram interleave.        *)
(***************************************************************************)
\* res.json(result.rows[0]): the row the UPDATE returned, if it returned one.
ReturnedRow(rows) == IF Len(rows) = 0 THEN [empty |-> TRUE] ELSE rows[1]

\* authenticateToken, the ownership SELECT and the building of the SET list.
PutDiagramBegin ==
  \E s \in FreeSlots, bearer \in Requesters, id \in DiagramIds, title \in PutTitles,
     diagram_data \in PutData, is_public \in PublicFlags :
    LET out == UpdateDiagramOutcome(audit_logs, diagrams, diagram_versions, serial,
                                    bearer, id, title, diagram_data, is_public, 2, now)
    IN /\ inflight' = [inflight EXCEPT ![s] =
            IF out.res.status # 500
            THEN Answered("update-diagram", out.res)
            ELSE [kind |-> "update-diagram", pc |-> "update", userId |-> bearer.userId,
                  id |-> id, title |-> title, diagram_data |-> diagram_data,
                  is_public |-> is_public]]
       /\ UNCHANGED <<users, audit_logs, now, held, last, enrolled, api_keys, reveals,
                      limiterVars, diagramVars, serverVars, scriptVars>>

\* The UPDATE ... RETURNING * statement, with the trigger it fires.
PutDiagramUpdate ==
  \E s \in Slots :
    /\ inflight[s].kind = "update-diagram"
    /\ inflight[s].pc = "update"
    /\ LET r == inflight[s]
           upd == UpdateDiagramRow(diagrams, diagram_versions, serial, r.id, r.title,
                                   r.diagram_data, r.is_public)
       IN /\ upd.serial.versions <= MaxVersions
          /\ diagrams' = upd.diagrams
          /\ diagram_versions' = upd.diagram_versions
          /\ serial' = upd.serial
          /\ inflight' = [inflight EXCEPT ![s] =
               IF upd.ok
               THEN [kind |-> "update-diagram", pc |-> "audit", userId |-> r.userId,
                     id |-> r.id, rows |-> upd.rows]
               ELSE Answered("update-diagram",
                             ErrorDiagrams(audit_logs, diagrams, diagram_versions, serial).res)]
    /\ UNCHANGED <<users, audit_logs, now, held, last, enrolled, api_keys, reveals,
                   limiterVars, serverVars, scriptVars>>

\* The audit INSERT and res.json(result.rows[0]).
PutDiagramAudit ==
  \E s \in Slots :
    /\ inflight[s].kind = "update-diagram"
    /\ inflight[s].pc = "audit"
    /\ Len(audit_logs) < MaxDiagramLogs
    /\ LET r == inflight[s] IN
         /\ audit_logs' = Append(audit_logs, AuditEntry(r.userId, "update", "diagram", r.id, ""))
         /\ inflight' = [inflight EXCEPT ![s] =
              Answered("update-diagram", [status |-> 200, body |-> ReturnedRow(r.rows)])]
    /\ UNCHANGED <<users, now, held, last, enrolled, api_keys, reveals,
                   limiterVars, diagramVars, serverVars, scriptVars>>

\* authenticateToken and the ownership SELECT.
RestoreBegin ==
  \E s \in FreeSlots, bearer \in Requesters, id \in DiagramIds, versionId \in VersionIds :
    LET out == RestoreVersionOutcome(audit_logs, diagrams, diagram_versions, serial,
                                     bearer, id, versionId, 2, now)
    IN /\ inflight' = [inflight EXCEPT ![s] =
            IF out.res.status # 500
            THEN Answered("restore-version", out.res)
            ELSE [kind |-> "restore-version", pc |-> "select", userId |-> bearer.userId,
                  id |-> id, versionId |-> versionId]]
       /\ UNCHANGED <<users, audit_logs, now, held, last, enrolled, api_keys, reveals,
                      limiterVars, diagramVars, serverVars, scriptVars>>

\* SELECT diagram_data FROM diagram_versions WHERE id = $1 AND diagram_id = $2.
RestoreSelect ==
  \E s \in Slots :
    /\ inflight[s].kind = "restore-version"
    /\ inflight[s].pc = "select"
    /\ LET r == inflight[s]
           versionResult == SelectSeq(diagram_versions,
                                      LAMBDA row : row.id = r.versionId
                                                   /\ row.diagram_id = r.id)
       IN inflight' = [inflight EXCEPT ![s] =
            IF Len(versionResult) = 0
            THEN Answered("restore-version",
                          [status |-> 404, body |-> [error |-> "Version not found"]])
            ELSE [kind |-> "restore-version", pc |-> "update", userId |-> r.userId,
                  id |-> r.id, versionId |-> r.versionId,
                  diagram_data |-> versionResult[1].diagram_data]]
    /\ UNCHANGED <<users, audit_logs, now, held, last, enrolled, api_keys, reveals,
                   limiterVars, diagramVars, serverVars, scriptVars>>

\* UPDATE diagrams SET diagram_data = $1 WHERE id = $2 RETURNING *.
RestoreUpdate ==
  \E s \in Slots :
    /\ inflight[s].kind = "restore-version"
    /\ inflight[s].pc = "update"
    /\ LET r == inflight[s]
           upd == UpdateDiagramRow(diagrams, diagram_versions, serial, r.id, Undefined,
                                   r.diagram_data, "undefined")
       IN /\ upd.serial.versions <= MaxVersions
          /\ diagrams' = upd.diagrams
          /\ diagram_versions' = upd.diagram_versions
          /\ serial' = upd.serial
          /\ inflight' = [inflight EXCEPT ![s] =
               IF upd.ok
               THEN [kind |-> "restore-version", pc |-> "audit", userId |-> r.userId,
                     id |-> r.id, versionId |-> r.versionId, rows |-> upd.rows]
               ELSE Answered("restore-version",
                             ErrorDiagrams(audit_logs, diagrams, diagram_versions, serial).res)]
    /\ UNCHANGED <<users, audit_logs, now, held, last, enrolled, api_keys, reveals,
                   limiterVars, serverVars, scriptVars>>

\* The audit INSERT and res.json(result.rows[0]).
RestoreAudit ==
  \E s \in Slots :
    /\ inflight[s].kind = "restore-version"
    /\ inflight[s].pc = "audit"
    /\ Len(audit_logs) < MaxDiagramLogs
    /\ LET r == inflight[s] IN
         /\ audit_logs' = Append(audit_logs,
                                 AuditEntry(r.userId, "restore_version", "diagram", r.id,
                                            ToString(r.versionId)))
         /\ inflight' = [inflight EXCEPT ![s] =
              Answered("restore-version", [status |-> 200, body |-> ReturnedRow(r.rows)])]
    /\ UNCHANGED <<users, now, held, last, enrolled, api_keys, reveals,
                   limiterVars, diagramVars, serverVars, scriptVars>>

\* The state after alice has created one public diagram.
Drawn ==
  CreateDiagramOutcome(LoggedIn.audit_logs, <<>>, <<>>, NoSerial,
                       Registered.res.body.token, "plan", 1, "true", 0, 0)

InitVersions ==
  /\ users = LoggedIn.users
  /\ audit_logs = Drawn.audit_logs
  /\ now = 0
  /\ held = {Registered.res.body.token, LoggedIn.res.body.token}
  /\ enrolled = {}
  /\ last = [op |-> "create-diagram", res |-> Drawn.res, cred |-> NoCred,
             after2FA |-> FALSE,
             req |-> [userId |-> Registered.res.body.token.userId, id |-> 1]]
  /\ api_keys = <<>>
  /\ inflight = [s \in Slots |-> Idle]
  /\ reveals = <<>>
  /\ hits = NoHits
  /\ reached = NoHits
  /\ diagrams = Drawn.diagrams
  /\ diagram_versions = Drawn.diagram_versions
  /\ serial = Drawn.serial
  /\ env = DefaultEnv
  /\ server = startServer(DefaultEnv)
  /\ db = "current"
  /\ uploads = "current"
  /\ backup_dir = {}
  /\ sh = NoScript

NextVersions ==
  \/ DeleteDiagram
  \/ PutDiagramBegin
  \/ PutDiagramUpdate
  \/ PutDiagramAudit
  \/ RestoreBegin
  \/ RestoreSelect
  \/ RestoreUpdate
  \/ RestoreAudit

SpecVersions == InitVersions /\ [][NextVersions]_vars


(***************************************************************************)
(* GET /diagrams with its query parameters page, limit, search and tags.   *)
(***************************************************************************)
Pages == {1, 2}
Limits == {1, 10}
TitleSearches == {"", "pla", "map"}
TagFilters == {<<>>, <<"net">>}

\* text ILIKE '%' || pattern || '%' on the titles and patterns of the model.
ILike(text, pattern) == pattern = "" \/ <<text, pattern>> \in {<<"plan", "pla">>}

\* The tags column: POST /diagrams without tags stores the default [].
TagsOf(row) == {}

\* tags && $n: the two arrays have an element in common.
Overlap(rowTags, tags) == rowTags \cap {tags[k] : k \in 1..Len(tags)} # {}

\* WHERE user_id = $1 with the search and tags conditions the handler adds;
\* description is NULL in every row of the model, so only the title matches.
Filtered(ds, userId, search, tags) ==
  SelectSeq(ds, LAMBDA row : /\ row.user_id = userId
                             /\ (search # "" => ILike(row.title, search))
                             /\ (Len(tags) > 0 => Overlap(TagsOf(row), tags)))

\* LIMIT $n OFFSET $m.
LimitOffset(rows, limit, offset) ==
  SubSeq(rows, offset + 1, IF offset + limit < Len(rows) THEN offset + limit ELSE Len(rows))

\* Math.ceil(count / limit).
Ceil(count, limit) == (count + limit - 1) \div limit

PageDiagramsOutcome(logs, ds, vs, ser, bearer, page, limit, search, tags, fail, t) ==
  LET auth == authenticateToken(bearer, t) IN
  IF ~auth.next THEN RejectedDiagrams(logs, ds, vs, ser, auth)
  ELSE LET userId == bearer.userId
           offset == (page - 1) * limit
           result == LimitOffset(Filtered(ds, userId, search, tags), limit, offset)
           count == Len(SelectSeq(ds, LAMBDA row : row.user_id = userId))
       IN IF fail \in {1, 2} THEN ErrorDiagrams(logs, ds, vs, ser)
          ELSE OutDiagrams(logs, ds, vs, ser, 200,
                           [diagrams |-> Rows(result, ListedDiagram), total |-> count,
                            page |-> page, totalPages |-> Ceil(count, limit)])

\* last.req keeps the query of the request.
PageDiagrams ==
  \E bearer \in Requesters, page \in Pages, limit \in Limits, search \in TitleSearches,
     tags \in TagFilters :
    LET out == PageDiagramsOutcome(audit_logs, diagrams, diagram_versions, serial, bearer,
                                   page, limit, search, tags, 0, now)
    IN /\ last' = [op |-> "page-diagrams", res |-> out.res, cred |-> NoCred,
                   after2FA |-> FALSE,
                   req |-> [userId |-> bearer.userId, page |-> page, limit |-> limit,
                            search |-> search, tags |-> tags]]
       /\ UNCHANGED <<users, audit_logs, now, held, enrolled, api_keys, inflight, reveals,
                      limiterVars, diagramVars, serverVars, scriptVars>>

NextListing ==
  \/ CreateDiagram
  \/ DeleteDiagram
  \/ PageDiagrams

SpecListing == InitDiagrams /\ [][NextListing]_vars


(***************************************************************************)
(* The API keys of two users: create, list and delete, each request served *)
(* alone.                                                                  *)
(***************************************************************************)
OwnerListApiKeys ==
  \E bearer \in Requesters :
    ApplyAudited("list-api-keys", bearer, 0,
                 ListApiKeysOutcome(users, audit_logs, api_keys, bearer, 0, now),
                 api_keys, FALSE)

NextKeyOwners ==
  \/ AuditedCreateApiKey
  \/ AuditedDeleteApiKey
  \/ OwnerListApiKeys

SpecKeyOwners == InitDiagrams /\ [][NextKeyOwners]_vars


Next ==
  \/ Login
  \/ Setup2fa
  \/ Verify2fa
  \/ GetMe
  \/ Disable2fa
  \/ UpdateStatus
  \/ Tick

Spec == Init /\ [][Next]_vars

(***************************************************************************)
(* Properties.  A property of a handler is stated for every request the    *)
(* handler can receive in a reachable state of the store: the handler's    *)
(* outcome is the outcome the action of that request applies.              *)
(***************************************************************************)
Authenticated(bearer) == authenticateTokenAuthRouter(bearer, now).next

PasswordMatches(email, password) ==
  \E i \in SelectByEmail(users, email) :
    BcryptCompare(password, users[i].password_hash)

UserOf(email) == users[CHOOSE i \in SelectByEmail(users, email) : TRUE]

\* C1: POST /login returns a token only when the submitted password matches
\* the stored hash and the user's totp_secret is null or the submitted code
\* verifies against it; every other outcome carries no token.
C1_TokenOnlyForCompleteLogin ==
  \A email \in Emails, password \in LoginPasswords,
     totp \in TotpInputs(users, now), fail \in 0..2 :
    LET out == LoginOutcome(users, audit_logs, email, password, totp, fail, now) IN
    HasToken(out.res) =>
      /\ PasswordMatches(email, password)
      /\ \/ UserOf(email).totp_secret = NULL
         \/ TotpVerify(UserOf(email).totp_secret, totp, TotpWindow, now)

\* A login of a user with active 2FA has just returned a token.
C1_Witness ==
  /\ last.op = "login"
  /\ HasToken(last.res)
  /\ last.res.body.user.has2FA

\* C2: for a user with a non-null totp_secret, a login with the correct
\* password and no code answers 200 {require2FA: true}, issues no token and
\* leaves last_login unchanged; the same credentials with a code valid for
\* the active secret answer 200 with a token and last_login set to now.
C2_SecondFactorChallenge ==
  \A email \in Emails, password \in LoginPasswords :
    (PasswordMatches(email, password) /\ UserOf(email).totp_secret # NULL) =>
      /\ LET out == LoginOutcome(users, audit_logs, email, password, NoCode, 0, now) IN
           /\ out.res = [status |-> 200, body |-> [require2FA |-> TRUE]]
           /\ out.users = users
      /\ \A totp \in TotpInputs(users, now) :
           TotpVerify(UserOf(email).totp_secret, totp, TotpWindow, now) =>
             LET out == LoginOutcome(users, audit_logs, email, password, totp, 0, now) IN
               /\ out.res.status = 200
               /\ HasToken(out.res)
               /\ out.users[UserOf(email).id].last_login = now

\* A login answered with require2FA was repeated with a code and got a token.
C2_Witness ==
  /\ last.op = "login"
  /\ last.after2FA
  /\ HasToken(last.res)

\* C3: for a user whose totp_secret is null, a login with the correct
\* password returns a token in one request, whether or not a pending secret
\* is set and whether or not a code is supplied.
C3_LoginIgnoresPendingSecret ==
  \A email \in Emails, password \in LoginPasswords, totp \in TotpInputs(users, now) :
    (PasswordMatches(email, password) /\ UserOf(email).totp_secret = NULL) =>
      LET out == LoginOutcome(users, audit_logs, email, password, totp, 0, now) IN
        /\ out.res.status = 200
        /\ HasToken(out.res)

\* A user with a pending secret and no active secret has just logged in.
C3_Witness ==
  /\ last.op = "login"
  /\ HasToken(last.res)
  /\ \E i \in Ids(users) :
       /\ last.res.body.user.id = i
       /\ users[i].totp_secret = NULL
       /\ users[i].totp_temp_secret # NULL

\* C4: setup-2fa writes only totp_temp_secret; a totp_secret is non-null only
\* if a verify-2fa of that user has succeeded against the pending secret, and
\* that success moves the pending value to totp_secret and nulls the pending.
C4_TwoPhaseEnrollment ==
  /\ \A i \in Ids(users) : users[i].totp_secret # NULL => i \in enrolled
  /\ \A bearer \in Bearers, secret \in Secrets, fail \in 0..1 :
       LET out == Setup2faOutcome(users, audit_logs, bearer, secret, fail, now) IN
         \A i \in Ids(users) :
           out.users[i] = [users[i] EXCEPT !.totp_temp_secret = out.users[i].totp_temp_secret]
  /\ \A bearer \in Bearers, token \in TotpInputs(users, now), fail \in 0..2 :
       LET out == Verify2faOutcome(users, audit_logs, bearer, token, fail, now) IN
         IF out.res.status = 200
         THEN /\ Authenticated(bearer)
              /\ users[bearer.userId].totp_temp_secret # NULL
              /\ TotpVerify(users[bearer.userId].totp_temp_secret, token, TotpWindow, now)
              /\ out.users = [users EXCEPT
                                ![bearer.userId].totp_secret = users[bearer.userId].totp_temp_secret,
                                ![bearer.userId].totp_temp_secret = NULL]
         ELSE out.users = users

\* A verify-2fa has just promoted the pending secret.
C4_Witness ==
  /\ last.op = "verify-2fa"
  /\ last.res.status = 200
  /\ \E i \in enrolled : users[i].totp_secret # NULL /\ users[i].totp_temp_secret = NULL

\* C5: verify-2fa answers 400 and leaves totp_secret and totp_temp_secret
\* unchanged when the user has no pending secret or the submitted code does
\* not verify against the pending secret (the store answering its queries).
C5_VerifyRejectionKeepsSecrets ==
  \A bearer \in Bearers, token \in TotpInputs(users, now), fail \in {0, 2} :
    LET out == Verify2faOutcome(users, audit_logs, bearer, token, fail, now) IN
    (/\ Authenticated(bearer)
     /\ \/ users[bearer.userId].totp_temp_secret = NULL
        \/ ~TotpVerify(users[bearer.userId].totp_temp_secret, token, TotpWindow, now)) =>
      /\ out.res.status = 400
      /\ out.users = users

\* A verify-2fa with a pending enrollment was rejected for its code.
C5_Witness ==
  /\ last.op = "verify-2fa"
  /\ last.res = [status |-> 400, body |-> [error |-> "Invalid 2FA token"]]
  /\ \E i \in Ids(users) : users[i].totp_temp_secret # NULL

\* C6: for a user with active 2FA, the response (status and body) of a login
\* with the correct password and a wrong code is identical to the response of
\* a login with a wrong password.
C6_WrongCodeLikeWrongPassword ==
  \A email \in Emails, password \in LoginPasswords, wrong \in LoginPasswords \ {<<>>},
     totp \in TotpInputs(users, now) \ {NoCode} :
    (/\ PasswordMatches(email, password)
     /\ ~PasswordMatches(email, wrong)
     /\ UserOf(email).totp_secret # NULL
     /\ ~TotpVerify(UserOf(email).totp_secret, totp, TotpWindow, now)) =>
      LoginOutcome(users, audit_logs, email, password, totp, 0, now).res
        = LoginOutcome(users, audit_logs, email, wrong, totp, 0, now).res

InvalidCredentials == [status |-> 401, body |-> [error |-> "Invalid credentials"]]

\* C7: a login with an email that matches no user and a login with an
\* existing user's email and a wrong password get identical responses (the
\* same status and the same 'Invalid credentials' body), whether or not that
\* user has 2FA enabled and whatever code either request carries.
C7_UnknownEmailLikeWrongPassword ==
  \A password \in LoginPasswords \ {<<>>}, totp \in TotpInputs(users, now) :
    /\ \A unknown \in Emails \ {""} :
         SelectByEmail(users, unknown) = {} =>
           LoginOutcome(users, audit_logs, unknown, password, totp, 0, now).res
             = InvalidCredentials
    /\ \A email \in Emails :
         (SelectByEmail(users, email) # {} /\ ~PasswordMatches(email, password)) =>
           LoginOutcome(users, audit_logs, email, password, totp, 0, now).res
             = InvalidCredentials

\* A login was rejected with 'Invalid credentials' while a user has 2FA active.
C7_Witness ==
  /\ last.op = "login"
  /\ last.res = InvalidCredentials
  /\ \E i \in Ids(users) : users[i].totp_secret # NULL

\* C8: a user whose is_active flag is false cannot complete a login: no
\* login response carries a token for a user whose is_active is false.
C8_InactiveUserGetsNoToken ==
  (last.op = "login" /\ HasToken(last.res)) =>
    users[last.res.body.user.id].is_active

\* C9: last_login is set by every login that returns a token, with the update
\* made before the token is returned (a failed update returns no token), and
\* is changed by no login that is rejected or answered with require2FA.
C9_LastLoginFollowsToken ==
  /\ \A email \in Emails, password \in LoginPasswords,
        totp \in TotpInputs(users, now), fail \in 0..2 :
       LET out == LoginOutcome(users, audit_logs, email, password, totp, fail, now) IN
         IF HasToken(out.res)
         THEN out.users = [users EXCEPT ![out.res.body.user.id].last_login = now]
         ELSE out.users = users
  /\ (last.op = "login" /\ HasToken(last.res)) =>
       users[last.res.body.user.id].last_login = last.res.body.token.iat

\* A login at a later instant has returned a token and moved last_login.
C9_Witness ==
  /\ last.op = "login"
  /\ HasToken(last.res)
  /\ last.res.body.token.iat > 0
  /\ users[last.res.body.user.id].last_login = last.res.body.token.iat

\* C10: on every bearer-protected endpoint a correctly signed but expired
\* token and a tampered or malformed token receive distinct responses.
C10_ExpiredDistinctFromInvalid ==
  \A tok \in held :
    LET fail == 0 IN
    JwtVerify(tok, JWT_SECRET, now) = "TokenExpiredError" =>
      \A bad \in {Tamper(tok), Malformed} :
        /\ authenticateToken(tok, now).res # authenticateToken(bad, now).res
        /\ GetMeOutcome(users, audit_logs, tok, fail, now).res
             # GetMeOutcome(users, audit_logs, bad, fail, now).res
        /\ Disable2faOutcome(users, audit_logs, tok, PwAdmin, fail, now).res
             # Disable2faOutcome(users, audit_logs, bad, PwAdmin, fail, now).res
        /\ UpdateStatusOutcome(users, audit_logs, tok, 1, "true", fail, now).res
             # UpdateStatusOutcome(users, audit_logs, bad, 1, "true", fail, now).res
        /\ Setup2faOutcome(users, audit_logs, tok, 1, fail, now).res
             # Setup2faOutcome(users, audit_logs, bad, 1, fail, now).res
        /\ Verify2faOutcome(users, audit_logs, tok, BadCode, fail, now).res
             # Verify2faOutcome(users, audit_logs, bad, BadCode, fail, now).res

\* C12: a token issued by register or login for user U is accepted before
\* issue time + 24 hours and carries exactly U's userId and username; at or
\* after its expiry it is rejected; a bearer not signed with the server secret
\* is never accepted; a request without a token is answered 401 and the
\* handler is not reached.
C12_TokenRoundTrip ==
  /\ (last.op = "login" /\ HasToken(last.res)) =>
       LET tok == last.res.body.token IN
         /\ tok.userId = last.res.body.user.id
         /\ tok.username = last.res.body.user.username
         /\ tok.exp = tok.iat + ExpiresIn
  /\ \A username \in Usernames, email \in Emails, password \in RegisterPasswords :
       LET out == RegisterOutcome(users, audit_logs, username, email, password, 1, 0, now) IN
         HasToken(out.res) =>
           LET tok == out.res.body.token IN
             /\ tok.userId = out.res.body.user.id
             /\ out.users[tok.userId].username = tok.username
             /\ tok.username = username
             /\ authenticateToken(tok, now).next
             /\ ReqUser(tok).userId = out.res.body.user.id
  /\ \A tok \in held :
       /\ now < tok.iat + ExpiresIn =>
            /\ authenticateToken(tok, now).next
            /\ authenticateTokenAuthRouter(tok, now).next
            /\ ReqUser(tok).userId = tok.userId
            /\ ReqUser(tok).username = users[tok.userId].username
            /\ GetMeOutcome(users, audit_logs, tok, 0, now).res.status = 200
            /\ GetMeOutcome(users, audit_logs, tok, 0, now).res.body.id = tok.userId
       /\ now >= tok.iat + ExpiresIn =>
            /\ ~authenticateToken(tok, now).next
            /\ ~authenticateTokenAuthRouter(tok, now).next
  /\ \A bearer \in Bearers :
       bearer.key # JWT_SECRET =>
         /\ ~authenticateToken(bearer, now).next
         /\ ~authenticateTokenAuthRouter(bearer, now).next
  /\ authenticateToken(NoToken, now).res.status = 401
  /\ authenticateTokenAuthRouter(NoToken, now).res.status = 401
  /\ \A password \in LoginPasswords, fail \in 0..3 :
       /\ GetMeOutcome(users, audit_logs, NoToken, fail, now)
            = Rejected(users, audit_logs, authenticateToken(NoToken, now))
       /\ Disable2faOutcome(users, audit_logs, NoToken, password, fail, now)
            = Rejected(users, audit_logs, authenticateToken(NoToken, now))
       /\ Setup2faOutcome(users, audit_logs, NoToken, 1, fail, now)
            = Rejected(users, audit_logs, authenticateTokenAuthRouter(NoToken, now))

\* A token issued at an earlier instant was accepted by GET /users/me.
C12_Witness ==
  /\ last.op = "get-me"
  /\ last.res.status = 200
  /\ \E tok \in held : tok.iat < now /\ last.res.body.id = tok.userId

\* C18: disable-2fa with a wrong password answers 401 and leaves both secrets
\* unchanged; with the correct password it sets both to null, after which a
\* login with the correct password alone returns a token; a login with the
\* password alone returns a token exactly when totp_secret is null.
C18_Disable2fa ==
  /\ \A bearer \in Bearers, password \in LoginPasswords \ {<<>>} :
       authenticateToken(bearer, now).next =>
         LET u == bearer.userId
             out == Disable2faOutcome(users, audit_logs, bearer, password, 0, now)
         IN IF ~BcryptCompare(password, users[u].password_hash)
            THEN /\ out.res.status = 401
                 /\ out.users = users
            ELSE /\ out.res.status = 200
                 /\ out.users[u].totp_secret = NULL
                 /\ out.users[u].totp_temp_secret = NULL
                 /\ HasToken(LoginOutcome(out.users, out.audit_logs, users[u].email,
                                          password, NoCode, 0, now).res)
  /\ \A email \in Emails, password \in LoginPasswords :
       PasswordMatches(email, password) =>
         (HasToken(LoginOutcome(users, audit_logs, email, password, NoCode, 0, now).res)
            <=> UserOf(email).totp_secret = NULL)

\* A user who had enrolled 2FA has logged in with the password alone.
C18_Witness ==
  /\ last.op = "login"
  /\ HasToken(last.res)
  /\ ~last.res.body.user.has2FA
  /\ last.res.body.user.id \in enrolled

UserExists == [status |-> 400, body |-> [error |-> "User already exists"]]

\* C13: POST /register with a password shorter than 8 characters answers 400
\* before any hashing or store access (whatever the store would answer): no
\* user is created, no token is issued, and no request with such a password
\* reaches the INSERT.
C13_ShortPasswordRejected ==
  /\ \A username \in Usernames, email \in Emails,
        password \in RegisterPasswords, fail \in 0..2 :
       Len(password) < MinPasswordLength =>
         LET out == RegisterOutcome(users, audit_logs, username, email, password,
                                    1, fail, now)
         IN /\ out.res.status = 400
            /\ out.users = users
            /\ out.audit_logs = audit_logs
            /\ ~HasToken(out.res)
  /\ \A s \in Slots :
       (inflight[s].kind = "register" /\ inflight[s].pc = "insert") =>
         Len(inflight[s].password) >= MinPasswordLength

\* A registration was answered 400 for its short password.
C13_Witness ==
  \E s \in Slots :
    inflight[s] = Answered("register",
                           [status |-> 400,
                            body |-> [error |-> "Password must be at least 8 characters long"]])

\* C14: a register whose email or username is already held is answered with
\* the 400 conflict response and creates no user; of two registrations with the
\* same email, in every interleaving, one creates the user and the other is
\* answered with the 400 conflict response.
C14_DuplicateIsConflict ==
  /\ \A username \in Usernames \ {""}, email \in Emails \ {""} :
       SelectByEmailOrUsername(users, email, username) # {} =>
         LET out == RegisterOutcome(users, audit_logs, username, email, PwUser, 1, 0, now)
         IN out.res = UserExists /\ out.users = users
  /\ \A s \in Slots :
       (inflight[s].kind = "register" /\ inflight[s].pc = "done") =>
         inflight[s].res.status \in {201, 400}

\* C15: no two user records share an email and no two share a username.
C15_UniqueEmailAndUsername ==
  \A i, j \in Ids(users) :
    i # j => users[i].email # users[j].email /\ users[i].username # users[j].username

\* A PUT /users/me lost a race for a name: its UPDATE was refused.
C15_Witness ==
  /\ Len(users) >= 2
  /\ \E s \in Slots : inflight[s] = Answered("put-me", InternalError(users, audit_logs).res)

\* C11: a token issued by login is accepted by the token middleware at every
\* time before its own expiry, whatever change-password, disable-2fa, profile
\* update or deactivation of the account has happened since.
C11_NoRevocation ==
  \A tok \in held :
    now < tok.exp =>
      /\ authenticateToken(tok, now).next
      /\ authenticateTokenAuthRouter(tok, now).next
      /\ GetMeOutcome(users, audit_logs, tok, 0, now).res.status = 200
      /\ GetMeOutcome(users, audit_logs, tok, 0, now).res.body.id = tok.userId

\* GET /users/me has accepted, at a later instant, the token of an account
\* that was since deactivated, renamed and given another password.
C11_Witness ==
  /\ last.op = "get-me"
  /\ last.res.status = 200
  /\ ~last.res.body.is_active
  /\ last.res.body.username # "admin"
  /\ users[1].password_hash # SeedAdmin.password_hash
  /\ now > 0

Written(s) == "latest" \in DOMAIN inflight[s]

\* C20: of two concurrent change-password requests on one account that both
\* passed the check of the current password, the stored password_hash is the
\* hash one of them wrote, the one whose UPDATE ran last; it is never the old
\* hash or anything else.
C20_LastWriterWins ==
  /\ \A s \in Slots :
       (Written(s) /\ inflight[s].latest) =>
         users[inflight[s].userId].password_hash = inflight[s].newPasswordHash
  /\ \A s1, s2 \in Slots :
       (/\ s1 # s2
        /\ Written(s1) /\ Written(s2)
        /\ inflight[s1].userId = inflight[s2].userId
        /\ inflight[s1].read = inflight[s2].read) =>
         /\ inflight[s1].latest # inflight[s2].latest
         /\ users[inflight[s1].userId].password_hash
              \in {inflight[s1].newPasswordHash, inflight[s2].newPasswordHash}
         /\ users[inflight[s1].userId].password_hash # inflight[s1].read

\* Two requests that read the same stored hash have both run their UPDATE
\* with different new passwords.
C20_Witness ==
  \E s1, s2 \in Slots :
    /\ s1 # s2
    /\ Written(s1) /\ Written(s2)
    /\ inflight[s1].userId = inflight[s2].userId
    /\ inflight[s1].read = inflight[s2].read
    /\ inflight[s1].newPasswordHash.digest[3] # inflight[s2].newPasswordHash.digest[3]
    /\ inflight[s2].latest

KeyColumns ==
  {"id", "user_id", "name", "key_hash", "permissions", "last_used_at", "expires_at",
   "is_active"}

C17_ApiKeyAuthenticates ==
  \A i \in 1..Len(api_keys) :
    LET row == api_keys[i]
        bearer == ApiKeyBearer(ApiKeyOf(row.id))
    IN (row.is_active /\ (row.expires_at = NoTime \/ now < row.expires_at)) =>
         /\ authenticateToken(bearer, now).next
         /\ GetMeOutcome(users, audit_logs, bearer, 0, now).res.status = 200

Sensitive == {"password_hash", "totp_secret"}

\* A response body, the user profile in it, a row of its user list or the
\* payload of its token has a password_hash or totp_secret column.
Exposes(body) ==
  \/ DOMAIN body \cap Sensitive # {}
  \/ "user" \in DOMAIN body /\ DOMAIN body.user \cap Sensitive # {}
  \/ "token" \in DOMAIN body /\ DOMAIN body.token \cap Sensitive # {}
  \/ "users" \in DOMAIN body /\
       \E i \in 1..Len(body.users) : DOMAIN body.users[i] \cap Sensitive # {}

\* C19: no response of register, login, GET /users/me, PUT /users/me, the
\* admin user list or the admin status update contains a user's
\* password_hash or active totp_secret.
C19_NoSecretInResponses ==
  /\ last.op \in {"login", "get-me", "put-me", "list-users", "update-status"} =>
       ~Exposes(last.res.body)
  /\ \A bearer \in Bearers, fail \in 0..3 :
       /\ ~Exposes(GetMeOutcome(users, audit_logs, bearer, fail, now).res.body)
       /\ \A search \in Searches :
            ~Exposes(ListUsersOutcome(users, audit_logs, bearer, search, fail, now).res.body)
       /\ \A username \in PutUsernames, email \in PutEmails :
            ~Exposes(PutMeOutcome(users, audit_logs, bearer, username, email, fail, now).res.body)
       /\ \A id \in TargetIds, is_active \in {"true", "false", "undefined"} :
            ~Exposes(UpdateStatusOutcome(users, audit_logs, bearer, id, is_active,
                                         fail, now).res.body)
  /\ \A email \in Emails, fail \in 0..2 :
       /\ \A password \in LoginPasswords, totp \in TotpInputs(users, now) :
            ~Exposes(LoginOutcome(users, audit_logs, email, password, totp, fail, now).res.body)
       /\ \A username \in Usernames, password \in RegisterPasswords :
            ~Exposes(RegisterOutcome(users, audit_logs, username, email, password,
                                     1, fail, now).res.body)

\* The admin list has returned the row of a user with active 2FA.
C19_Witness ==
  /\ last.op = "list-users"
  /\ last.res.status = 200
  /\ \E i \in 1..Len(last.res.body.users) : last.res.body.users[i].has_2fa

\* C21: in POST /login the password check completes before any second-factor
\* handling: a request whose password did not match never takes a branch of
\* the second-factor check and is never answered with require2FA or 'Invalid
\* 2FA code'; it gets the same response whatever code it carries and whether
\* or not the account has 2FA.
C21_PasswordBeforeSecondFactor ==
  /\ \A s \in Slots :
       (inflight[s].kind = "login" /\ "matched" \in DOMAIN inflight[s]) =>
         /\ inflight[s].second # "none" => inflight[s].matched
         /\ inflight[s].pc = "update" => inflight[s].matched
         /\ (inflight[s].pc = "done" /\ "require2FA" \in DOMAIN inflight[s].res.body)
              => inflight[s].matched
         /\ (inflight[s].pc = "done" /\ ~inflight[s].matched
               /\ inflight[s].secret # NULL) => inflight[s].res = InvalidCredentials
  /\ \A email \in Emails \ {""}, password \in LoginPasswords \ {<<>>},
        totp \in TotpInputs(users, now), fail \in {0, 2} :
       ~PasswordMatches(email, password) =>
         LoginOutcome(users, audit_logs, email, password, totp, fail, now)
           = Out(users, audit_logs, 401, [error |-> "Invalid credentials"])

\* A login with a wrong password and a code that verifies was rejected for
\* its credentials, the account having 2FA.
C21_Witness ==
  \E s \in Slots :
    /\ inflight[s].kind = "login"
    /\ inflight[s].pc = "done"
    /\ inflight[s].res = InvalidCredentials
    /\ inflight[s].secret # NULL
    /\ inflight[s].delta = 0

\* C22: with the window of 1 step, a code is accepted by login (against the
\* active secret) and by verify-2fa (against the pending secret) iff it is the
\* code of that secret for the current 30-second step or the step right
\* before or after it; a code two or more steps away is rejected.
C22_TotpWindow ==
  /\ \A secret \in Secrets, d \in -2..2 :
       LET code == TotpCode(secret, TotpCounter(now) + d) IN
       /\ \A email \in Emails, password \in LoginPasswords :
            (PasswordMatches(email, password) /\ UserOf(email).totp_secret # NULL) =>
              (HasToken(LoginOutcome(users, audit_logs, email, password, code, 0, now).res)
                 <=> (secret = UserOf(email).totp_secret /\ d \in -1..1))
       /\ \A bearer \in Bearers :
            (Authenticated(bearer) /\ users[bearer.userId].totp_temp_secret # NULL) =>
              (Verify2faOutcome(users, audit_logs, bearer, code, 0, now).res.status = 200
                 <=> (secret = users[bearer.userId].totp_temp_secret /\ d \in -1..1))
  /\ \A s \in Slots :
       (inflight[s].kind = "login" /\ "second" \in DOMAIN inflight[s]
          /\ inflight[s].second = "verified") => inflight[s].delta \in -1..1
  /\ \A t \in {0, TotpStep - 1, TotpStep, 2 * TotpStep}, secret \in Secrets :
       /\ TotpVerify(secret, TotpCode(secret, TotpCounter(t)), TotpWindow, t)
       /\ TotpVerify(secret, TotpCode(secret, TotpCounter(t + TotpStep)), TotpWindow, t)
       /\ TotpVerify(secret, TotpCode(secret, TotpCounter(t - TotpStep)), TotpWindow, t)
       /\ ~TotpVerify(secret, TotpCode(secret, TotpCounter(t + 2 * TotpStep)), TotpWindow, t)
       /\ ~TotpVerify(secret, TotpCode(secret, TotpCounter(t - 2 * TotpStep)), TotpWindow, t)

\* A login whose code was of the step after the clock's has returned a token.
C22_Witness ==
  \E s \in Slots :
    /\ inflight[s].kind = "login"
    /\ inflight[s].pc = "done"
    /\ HasToken(inflight[s].res)
    /\ inflight[s].second = "verified"
    /\ inflight[s].delta = 1

\* C23: every endpoint of the auth router (register, login, setup-2fa,
\* verify-2fa) is behind the auth limiter: from one client address at most 5
\* requests of a 15-minute window reach the handlers, and the count starts
\* again when the window ends.
C23_AuthLimiterGuardsAll ==
  \A client \in Clients : reached[client] <= AuthLimiterMax

Owns(bearer, id) ==
  /\ Len(FindDiagram(diagrams, id)) = 1
  /\ FindDiagram(diagrams, id)[1].user_id = bearer.userId

\* The two tables and the audit log are as the request found them.
Untouched(out) ==
  /\ out.diagrams = diagrams
  /\ out.diagram_versions = diagram_versions
  /\ out.audit_logs = audit_logs

\* C24: only the owner of a diagram can modify it: PUT, DELETE and restore by
\* another authenticated user answer 403 (404 when the diagram does not
\* exist) and leave the diagram, its versions and the audit log unchanged,
\* also when the diagram is public.
C24_OnlyOwnerModifies ==
  /\ \A bearer \in Requesters, id \in DiagramIds, fail \in 0..4 :
       (authenticateToken(bearer, now).next /\ ~Owns(bearer, id)) =>
         LET status == IF fail = 1 THEN 500
                       ELSE IF Len(FindDiagram(diagrams, id)) = 0 THEN 404 ELSE 403
         IN /\ \A title \in PutTitles \cup {"plan"}, diagram_data \in PutData \cup {NullData},
                  is_public \in PublicFlags \cup {"false"} :
                 LET out == UpdateDiagramOutcome(audit_logs, diagrams, diagram_versions,
                                                 serial, bearer, id, title, diagram_data,
                                                 is_public, fail, now)
                 IN out.res.status = status /\ Untouched(out)
            /\ LET out == DeleteDiagramOutcome(audit_logs, diagrams, diagram_versions,
                                               serial, bearer, id, fail, now)
               IN out.res.status = status /\ Untouched(out)
            /\ \A versionId \in VersionIds :
                 LET out == RestoreVersionOutcome(audit_logs, diagrams, diagram_versions,
                                                  serial, bearer, id, versionId, fail, now)
                 IN out.res.status = status /\ Untouched(out)
  /\ (last.op \in {"update-diagram", "restore-version"} /\ last.res.status = 200) =>
       /\ Owns([userId |-> last.req.userId], last.req.id)
       /\ last.res.body.user_id = last.req.userId

\* A PUT on a public diagram of another user was answered 403.
C24_Witness ==
  /\ last.op = "update-diagram"
  /\ last.res.status = 403
  /\ last.req.userId \in Ids(users)
  /\ FindDiagram(diagrams, last.req.id)[1].is_public

IdsOf(rows) == {rows[i].id : i \in 1..Len(rows)}

\* C25: GET /diagrams/:id and GET /diagrams/:id/versions return data only if
\* the requester owns the diagram or the diagram is public, and answer 404
\* otherwise; GET /diagrams lists only the requester's own diagrams and GET
\* /diagrams/public lists only the public diagrams.
C25_ReadOwnerOrPublic ==
  /\ \A bearer \in Requesters, id \in DiagramIds :
       authenticateToken(bearer, now).next =>
         LET found == FindDiagram(diagrams, id)
             allowed == Len(found) = 1
                          /\ (found[1].user_id = bearer.userId \/ found[1].is_public)
             one == GetDiagramOutcome(audit_logs, diagrams, diagram_versions, serial,
                                      bearer, id, 0, now)
             history == GetVersionsOutcome(audit_logs, diagrams, diagram_versions, serial,
                                           bearer, id, 0, now)
         IN IF allowed
            THEN /\ one.res = [status |-> 200, body |-> found[1]]
                 /\ history.res.status = 200
                 /\ IdsOf(history.res.body) = IdsOf(VersionsOf(diagram_versions, id))
            ELSE /\ one.res = [status |-> 404, body |-> [error |-> "Diagram not found"]]
                 /\ history.res = [status |-> 404, body |-> [error |-> "Diagram not found"]]
  /\ \A bearer \in Requesters :
       authenticateToken(bearer, now).next =>
         LET out == ListDiagramsOutcome(audit_logs, diagrams, diagram_versions, serial,
                                        bearer, 0, now)
         IN /\ out.res.status = 200
            /\ IdsOf(out.res.body.diagrams)
                 = {diagrams[i].id : i \in {j \in 1..Len(diagrams) :
                                              diagrams[j].user_id = bearer.userId}}
  /\ LET out == ListPublicOutcome(users, audit_logs, diagrams, diagram_versions, serial, 0)
     IN IdsOf(out.res.body.diagrams)
          = {diagrams[i].id : i \in {j \in 1..Len(diagrams) : diagrams[j].is_public}}
  /\ last.op \in {"get-diagram", "get-versions", "list-diagrams", "list-public"} =>
       Untouched([diagrams |-> diagrams, diagram_versions |-> diagram_versions,
                  audit_logs |-> audit_logs])
  /\ (last.op = "get-diagram" /\ last.res.status = 200) =>
       (last.res.body.user_id = last.req.userId \/ last.res.body.is_public)

\* A user has read the public diagram of another user, who has a private
\* diagram as well.
C25_Witness ==
  /\ last.op = "get-diagram"
  /\ last.res.status = 200
  /\ last.res.body.user_id # last.req.userId
  /\ \E i \in 1..Len(diagrams) :
       diagrams[i].user_id = last.res.body.user_id /\ ~diagrams[i].is_public

\* C26: every update of a diagram that changes diagram_data, by PUT or by
\* restore, inserts exactly one diagram_versions row that holds the data as it
\* was, numbered with the version before the update, and increments the
\* diagram's version by 1; an update that does not change diagram_data adds
\* no version row and leaves the version unchanged.
Versioned(id, out) ==
  LET old == FindDiagram(diagrams, id)[1]
      new == FindDiagram(out.diagrams, id)[1]
  IN (Len(FindDiagram(diagrams, id)) = 1 /\ Len(FindDiagram(out.diagrams, id)) = 1) =>
       IF new.diagram_data # old.diagram_data
       THEN /\ out.diagram_versions =
                 Append(diagram_versions,
                        [id |-> serial.versions + 1, diagram_id |-> id,
                         version |-> old.version, diagram_data |-> old.diagram_data,
                         created_by |-> old.user_id])
            /\ new.version = old.version + 1
       ELSE /\ out.diagram_versions = diagram_versions
            /\ new.version = old.version

C26_VersionHistory ==
  /\ \A bearer \in Requesters, id \in DiagramIds, fail \in 0..4 :
       /\ \A title \in PutTitles \cup {"plan"}, diagram_data \in PutData \cup {NullData, 1},
             is_public \in PublicFlags \cup {"false"} :
            Versioned(id, UpdateDiagramOutcome(audit_logs, diagrams, diagram_versions,
                                               serial, bearer, id, title, diagram_data,
                                               is_public, fail, now))
       /\ \A versionId \in VersionIds :
            Versioned(id, RestoreVersionOutcome(audit_logs, diagrams, diagram_versions,
                                                serial, bearer, id, versionId, fail, now))
  /\ \A i \in 1..Len(diagrams) :
       LET history == VersionsOf(diagram_versions, diagrams[i].id) IN
         /\ diagrams[i].version = FirstVersion + Len(history)
         /\ \A k \in 1..Len(history) : history[k].version = FirstVersion + k - 1

\* A PUT has changed the data of a diagram: the diagram is at version 2 and
\* the row of version 1 holds the data of the create.
C26_Witness ==
  /\ last.op = "update-diagram"
  /\ last.res.status = 200
  /\ last.res.body.version = 2
  /\ \E k \in 1..Len(diagram_versions) :
       /\ diagram_versions[k].diagram_id = last.req.id
       /\ diagram_versions[k].version = 1
       /\ diagram_versions[k].diagram_data # last.res.body.diagram_data

\* C27: restore by the owner sets the diagram's diagram_data to exactly the
\* data of the named version, provided the version row belongs to that
\* diagram; if the version id does not exist or belongs to another diagram the
\* answer is 404 and the diagram and its versions are unchanged.
C27_RestoreVersion ==
  \A bearer \in Requesters, id \in DiagramIds, versionId \in VersionIds :
    (authenticateToken(bearer, now).next /\ Owns(bearer, id)) =>
      LET out == RestoreVersionOutcome(audit_logs, diagrams, diagram_versions, serial,
                                       bearer, id, versionId, 0, now)
          named == SelectSeq(diagram_versions, LAMBDA row : row.id = versionId)
      IN IF Len(named) = 1 /\ named[1].diagram_id = id
         THEN /\ out.res.status = 200
              /\ FindDiagram(out.diagrams, id)[1].diagram_data = named[1].diagram_data
              /\ out.res.body.diagram_data = named[1].diagram_data
              /\ \A i \in 1..Len(diagrams) :
                   diagrams[i].id # id => out.diagrams[i] = diagrams[i]
         ELSE /\ out.res = [status |-> 404, body |-> [error |-> "Version not found"]]
              /\ Untouched(out)

\* A restore has brought back the data of the create over later data.
C27_Witness ==
  /\ last.op = "restore-version"
  /\ last.res.status = 200
  /\ last.res.body.version = 3
  /\ last.res.body.diagram_data = 1

IsAdmin(bearer) == bearer.userId \in Ids(users) /\ users[bearer.userId].is_admin

AdminRequired == [status |-> 403, body |-> [error |-> "Admin access required"]]

\* C28: GET /users and PATCH /users/:id/status act only for a requester whose
\* user record currently has is_admin = true; any other authenticated
\* requester is answered 403, receives no user data, and no is_active flag or
\* audit-log entry changes.
C28_AdminOnly ==
  \A bearer \in Bearers :
    /\ \A search \in Searches, fail \in 0..2 :
         LET out == ListUsersOutcome(users, audit_logs, bearer, search, fail, now) IN
           /\ out.users = users /\ out.audit_logs = audit_logs
           /\ "users" \in DOMAIN out.res.body =>
                authenticateToken(bearer, now).next /\ IsAdmin(bearer)
           /\ (authenticateToken(bearer, now).next /\ ~IsAdmin(bearer) /\ fail = 0) =>
                out.res = AdminRequired
    /\ \A id \in TargetIds \cup {3}, is_active \in {"true", "false", "undefined"},
          fail \in 0..3 :
         LET out == UpdateStatusOutcome(users, audit_logs, bearer, id, is_active,
                                        fail, now)
         IN /\ (out.users # users \/ out.audit_logs # audit_logs \/ out.res.status = 200) =>
                 authenticateToken(bearer, now).next /\ IsAdmin(bearer)
            /\ (authenticateToken(bearer, now).next /\ ~IsAdmin(bearer) /\ fail = 0) =>
                 out.res = AdminRequired

\* An ordinary user holding a valid token has asked for a status update and
\* was answered 403.
C28_Witness ==
  /\ last.op = "update-status"
  /\ last.res = AdminRequired
  /\ \E tok \in held : authenticateToken(tok, now).next /\ ~IsAdmin(tok)

Succeeded(out) == out.res.status \in {200, 201}

\* The answer of a mutating request and the audit log it leaves: one more
\* entry, for this requester, action and resource, exactly when it succeeded.
Logged(out, bearer, action, resource_type, resource_id) ==
  IF Succeeded(out)
  THEN out.audit_logs =
         Append(audit_logs, out.audit_logs[Len(out.audit_logs)])
       /\ LET entry == out.audit_logs[Len(out.audit_logs)] IN
            /\ entry.user_id = bearer.userId
            /\ entry.action = action
            /\ entry.resource_type = resource_type
            /\ entry.resource_id = resource_id
  ELSE out.audit_logs = audit_logs

\* The same request with the audit INSERT failing: the mutation is in the
\* store already, the answer is 500 and the log is as it was.
Unlogged(ok, lost, Table(_)) ==
  Succeeded(ok) =>
    /\ lost.res.status = 500
    /\ lost.audit_logs = audit_logs
    /\ Table(lost) = Table(ok)

UsersOf(out) == out.users
KeysOf(out) == out.api_keys
DiagramsOf(out) == <<out.diagrams, out.diagram_versions>>

\* C29: every successful mutating request of the users and diagrams routers
\* (profile update, password change, disable-2fa, API-key create and delete,
\* user status update, diagram create, update, delete and restore) appends
\* exactly one audit_logs entry naming the acting user, the action and the
\* resource, after the mutation; a rejected request appends none.
C29_AuditLogging ==
  /\ \A bearer \in Requesters :
       /\ \A username \in PutUsernames, email \in PutEmails :
            LET H(fail) == PutMeOutcome(users, audit_logs, bearer, username, email,
                                        fail, now)
            IN /\ \A fail \in 0..3 :
                    Logged(H(fail), bearer, "update_profile", "user", bearer.userId)
               /\ Unlogged(H(0), H(3), UsersOf)
       /\ \A currentPassword \in LoginPasswords, newPassword \in {PwShort, PwUser} :
            LET H(fail) == ChangePasswordOutcome(users, audit_logs, bearer,
                                                 currentPassword, newPassword, 2, fail, now)
            IN /\ \A fail \in 0..3 :
                    Logged(H(fail), bearer, "change_password", "user", bearer.userId)
               /\ Unlogged(H(0), H(3), UsersOf)
       /\ \A password \in LoginPasswords :
            LET H(fail) == Disable2faOutcome(users, audit_logs, bearer, password, fail, now)
            IN /\ \A fail \in 0..3 :
                    Logged(H(fail), bearer, "disable_2fa", "user", bearer.userId)
               /\ Unlogged(H(0), H(3), UsersOf)
       /\ \A id \in TargetIds \cup {3}, is_active \in {"true", "false", "undefined"} :
            LET H(fail) == UpdateStatusOutcome(users, audit_logs, bearer, id, is_active,
                                               fail, now)
            IN /\ \A fail \in 0..3 :
                    Logged(H(fail), bearer, "update_user_status", "user", id)
               /\ Unlogged(H(0), H(3), UsersOf)
       /\ \A name \in KeyNames, expiresInDays \in ExpiresInDays :
            LET H(fail) == CreateApiKeyOutcome(users, audit_logs, api_keys,
                                               Len(reveals) + 1, bearer, name,
                                               expiresInDays, fail, now)
            IN /\ \A fail \in 0..2 :
                    Logged(H(fail), bearer, "create_api_key", "api_key", Len(reveals) + 1)
               /\ Unlogged(H(0), H(2), KeysOf)
       /\ \A keyId \in KeyIds :
            LET H(fail) == DeleteApiKeyOutcome(users, audit_logs, api_keys, bearer, keyId,
                                               fail, now)
            IN /\ \A fail \in 0..2 :
                    Logged(H(fail), bearer, "delete_api_key", "api_key", keyId)
               /\ Unlogged(H(0), H(2), KeysOf)
       /\ \A title \in Titles, diagram_data \in CreateData, is_public \in PublicFlags :
            LET H(fail) == CreateDiagramOutcome(audit_logs, diagrams, diagram_versions,
                                                serial, bearer, title, diagram_data,
                                                is_public, fail, now)
            IN /\ \A fail \in 0..2 :
                    Logged(H(fail), bearer, "create", "diagram", serial.diagrams + 1)
               /\ Unlogged(H(0), H(2), DiagramsOf)
       /\ \A id \in DiagramIds :
            /\ \A title \in PutTitles, diagram_data \in PutData, is_public \in PublicFlags :
                 LET H(fail) == UpdateDiagramOutcome(audit_logs, diagrams, diagram_versions,
                                                     serial, bearer, id, title, diagram_data,
                                                     is_public, fail, now)
                 IN /\ \A fail \in 0..3 : Logged(H(fail), bearer, "update", "diagram", id)
                    /\ Unlogged(H(0), H(3), DiagramsOf)
            /\ LET H(fail) == DeleteDiagramOutcome(audit_logs, diagrams, diagram_versions,
                                                   serial, bearer, id, fail, now)
               IN /\ \A fail \in 0..3 : Logged(H(fail), bearer, "delete", "diagram", id)
                  /\ Unlogged(H(0), H(3), DiagramsOf)
            /\ \A versionId \in VersionIds :
                 LET H(fail) == RestoreVersionOutcome(audit_logs, diagrams, diagram_versions,
                                                      serial, bearer, id, versionId, fail, now)
                 IN /\ \A fail \in 0..4 :
                         Logged(H(fail), bearer, "restore_version", "diagram", id)
                    /\ Unlogged(H(0), H(4), DiagramsOf)
  /\ Len(audit_logs) > 0 =>
       (Succeeded(last) =>
          /\ audit_logs[Len(audit_logs)].user_id = last.req.userId
          /\ audit_logs[Len(audit_logs)].resource_id = last.req.id)

\* A restore was answered 200 and the newest audit entry is its own: it is
\* the third entry, after the create and the update of the same diagram.
C29_Witness ==
  /\ last.op = "restore-version"
  /\ last.res.status = 200
  /\ Len(audit_logs) = 3
  /\ audit_logs[3].action = "restore_version"
  /\ audit_logs[3].user_id = last.req.userId
  /\ audit_logs[3].resource_id = last.req.id

Ended == server.pc \in {"done", "crashed"}

Recoverable == \E f \in backup_dir : f.of = "current" /\ f.content = "good"

\* C31: restore.sh takes a backup of the current database before it drops and
\* recreates it, so that the existing data is still recoverable if the
\* restore from the given file fails.
C31_BackupBeforeRestore ==
  (sh.script = "restore.sh" /\ db # "current") => Recoverable

\* The dump of this run, as a file of /backups.
Dumped(content) == \E f \in backup_dir : f.name = DbBackupFile /\ f.content = content

\* C32: backup.sh reports success (exit status 0 and a SUCCESS notification)
\* whenever the database dump is written as a non-empty file that passes
\* verification, and reports failure (exit status 1) whenever the database
\* dump fails or a produced backup file is missing or empty; the cleanup of
\* old backups runs before the script exits in both cases.
C32_BackupReports ==
  (sh.script = "backup.sh" /\ sh.pc = "exited") =>
    /\ sh.cleaned /\ StaleFile \notin backup_dir
    /\ (~sh.pg_dump \/ ~Dumped("good")) => (sh.status = 1 /\ sh.notified = "FAILED")
    /\ (sh.pg_dump /\ Dumped("good") /\ (sh.files => sh.tar)) =>
         (sh.status = 0 /\ sh.notified = "SUCCESS")

\* C33: promotion of the pending secret is atomic with respect to the user's
\* other 2FA requests: in every interleaving of verify-2fa with disable-2fa
\* or setup-2fa, verify-2fa sets totp_secret only to the value
\* totp_temp_secret holds at the moment of the write; in particular, once a
\* disable-2fa request has completed successfully, totp_secret stays null
\* until a setup-2fa issued after it has been confirmed.
C33_AtomicPromotion ==
  /\ \A s \in Slots :
       (inflight[s].kind = "verify-2fa" /\ "pending" \in DOMAIN inflight[s]) =>
         inflight[s].tempSecret = inflight[s].pending
  /\ (last.op = "disable-2fa" /\ last.res.status = 200) =>
       \A i \in Ids(users) : users[i].totp_secret = NULL

IsError(out) == out.res.status >= 400

\* C34: every request answered with an error status (4xx or 5xx) leaves the
\* users, api_keys, diagrams and diagram_versions data unchanged; in
\* particular a failure of the audit-log insert that follows a mutation does
\* not leave the mutation committed behind a 500 response.
C34_ErrorsLeaveDataUnchanged ==
  \A bearer \in Bearers :
    /\ \A currentPassword \in LoginPasswords, newPassword \in {PwShort, PwUser},
          fail \in 0..3 :
         LET out == ChangePasswordOutcome(users, audit_logs, bearer, currentPassword,
                                          newPassword, 2, fail, now)
         IN IsError(out) => out.users = users
    /\ \A name \in KeyNames, expiresInDays \in ExpiresInDays, fail \in 0..2 :
         LET out == CreateApiKeyOutcome(users, audit_logs, api_keys, Len(reveals) + 1,
                                        bearer, name, expiresInDays, fail, now)
         IN IsError(out) => out.users = users /\ out.api_keys = api_keys
    /\ \A id \in DiagramIds, fail \in 0..3 :
         LET out == DeleteDiagramOutcome(audit_logs, diagrams, diagram_versions, serial,
                                         bearer, id, fail, now)
         IN IsError(out) =>
              out.diagrams = diagrams /\ out.diagram_versions = diagram_versions


\* C35: under any interleaving of PUT and restore requests on a diagram, its
\* version is 1 plus the number of diagram_versions rows kept for it, and those
\* rows carry the distinct version numbers 1..version-1.
VersionsKept(id) == SelectSeq(diagram_versions, LAMBDA row : row.diagram_id = id)

C35_VersionCount ==
  \A i \in 1..Len(diagrams) :
    LET kept == VersionsKept(diagrams[i].id) IN
    /\ diagrams[i].version = 1 + Len(kept)
    /\ {kept[k].version : k \in 1..Len(kept)} = 1..(diagrams[i].version - 1)
    /\ \A k, l \in 1..Len(kept) : kept[k].version = kept[l].version => k = l

\* A PUT and a restore on one diagram are both past their checks, and the
\* diagram has already been through two versioning updates.
C35_Witness ==
  /\ \E s, o \in Slots : /\ inflight[s].kind = "update-diagram"
                         /\ inflight[s].pc = "audit"
                         /\ inflight[o].kind = "restore-version"
                         /\ inflight[o].pc = "audit"
                         /\ inflight[s].id = inflight[o].id
  /\ \E i \in 1..Len(diagrams) : diagrams[i].version = 3


\* The password hashes of the users table, row by row.
Hashes(us) == [i \in Ids(us) |-> us[i].password_hash]

\* POST /login with the e-mail of user i and no 2FA code.
LoginAs(us, i, password) ==
  LoginOutcome(us, audit_logs, us[i].email, password, NoCode, 0, now).res

\* The handlers other than change-password leave every password_hash alone;
\* change-password changes only the requester's, and only when the token is
\* accepted, the current password matches the stored hash and the new one has
\* at least 8 characters; its 400 and 401 answers leave the hash unchanged.
HashChangedOnlyByOwner ==
  /\ \A email \in Emails, password \in LoginPasswords :
       Hashes(LoginOutcome(users, audit_logs, email, password, NoCode, 0, now).users)
         = Hashes(users)
  /\ \A bearer \in Bearers :
       /\ \A username \in PutUsernames, email \in PutEmails, fail \in {0, 3} :
            Hashes(PutMeOutcome(users, audit_logs, bearer, username, email, fail, now).users)
              = Hashes(users)
       /\ \A password \in LoginPasswords, fail \in {0, 3} :
            Hashes(Disable2faOutcome(users, audit_logs, bearer, password, fail, now).users)
              = Hashes(users)
       /\ \A id \in TargetIds, is_active \in {"true", "false", "undefined"}, fail \in {0, 3} :
            Hashes(UpdateStatusOutcome(users, audit_logs, bearer, id, is_active, fail,
                                       now).users) = Hashes(users)
       /\ \A currentPassword \in LoginPasswords, newPassword \in NewPasswords, fail \in 0..3 :
            LET out == ChangePasswordOutcome(users, audit_logs, bearer, currentPassword,
                                             newPassword, 2, fail, now)
            IN /\ \A i \in Ids(users) :
                    out.users[i].password_hash # users[i].password_hash =>
                      /\ i = bearer.userId
                      /\ authenticateToken(bearer, now).next
                      /\ BcryptCompare(currentPassword, users[i].password_hash)
                      /\ Len(newPassword) >= MinPasswordLength
               /\ out.res.status \in {400, 401} => Hashes(out.users) = Hashes(users)

\* The original statement of C36: after every successful change the login
\* succeeds with the new password and fails with the old one.
C36_AsStated ==
  /\ HashChangedOnlyByOwner
  /\ \A bearer \in Bearers, currentPassword \in LoginPasswords,
        newPassword \in NewPasswords :
       LET out == ChangePasswordOutcome(users, audit_logs, bearer, currentPassword,
                                        newPassword, 2, 0, now)
       IN out.res.status = 200 =>
            /\ LoginAs(out.users, bearer.userId, newPassword).status = 200
            /\ LoginAs(out.users, bearer.userId, currentPassword).status = 401

\* C36: a password_hash is changed only by a change-password request with the
\* user's own token, the matching current password and a new password of at
\* least 8 characters; 400 and 401 answers leave it unchanged; after a
\* successful change the login accepts the new password and rejects every
\* other password, the old one included when it differs from the new one.
C36_PasswordChange ==
  /\ HashChangedOnlyByOwner
  /\ \A bearer \in Bearers, currentPassword \in LoginPasswords,
        newPassword \in NewPasswords :
       LET out == ChangePasswordOutcome(users, audit_logs, bearer, currentPassword,
                                        newPassword, 2, 0, now)
       IN out.res.status = 200 =>
            /\ LoginAs(out.users, bearer.userId, newPassword).status = 200
            /\ \A password \in LoginPasswords \ {<<>>, newPassword} :
                 LoginAs(out.users, bearer.userId, password).status = 401
            /\ currentPassword # newPassword =>
                 LoginAs(out.users, bearer.userId, currentPassword).status = 401

\* The admin has changed the seeded password to another one: the stored hash
\* accepts the new password and no longer the old one.
C36_Witness ==
  /\ last.op = "change-password"
  /\ last.res.status = 200
  /\ BcryptCompare(PwUser, users[1].password_hash)
  /\ ~BcryptCompare(PwAdmin, users[1].password_hash)
  /\ LoginAs(users, 1, PwUser).status = 200
  /\ LoginAs(users, 1, PwAdmin).status = 401


\* C37: total and totalPages of GET /diagrams describe the set the page is
\* drawn from: total is the number of the requester's diagrams that match the
\* search and tag filters, and totalPages is ceil(total / limit).
C37_TotalMatchesPage ==
  (last.op = "page-diagrams" /\ last.res.status = 200) =>
    LET q == last.req
        matching == Filtered(diagrams, q.userId, q.search, q.tags)
    IN /\ last.res.body.total = Len(matching)
       /\ last.res.body.totalPages = Ceil(Len(matching), q.limit)


\* C38: DELETE /users/me/api-keys/:keyId removes a key only when it belongs to
\* the requester: for another user's key the answer is 403 and for an unknown
\* id 404, with api_keys and audit_logs unchanged; after a successful delete
\* the key no longer appears in its owner's GET /users/me/api-keys listing.
C38_DeleteOwnKeyOnly ==
  /\ \A bearer \in Requesters, keyId \in KeyIds, fail \in 0..2 :
       LET out == DeleteApiKeyOutcome(users, audit_logs, api_keys, bearer, keyId, fail, now)
           held_by == {api_keys[k].user_id : k \in {n \in 1..Len(api_keys) :
                                                      api_keys[n].id = keyId}}
           listing == ListApiKeysOutcome(out.users, out.audit_logs, out.api_keys,
                                         bearer, 0, now).res.body
       IN /\ out.api_keys # api_keys =>
               /\ authenticateToken(bearer, now).next
               /\ held_by = {bearer.userId}
               /\ out.api_keys = SelectSeq(api_keys, LAMBDA row : row.id # keyId)
          /\ (authenticateToken(bearer, now).next /\ fail = 0) =>
               /\ (held_by = {}) =>
                    /\ out.res.status = 404
                    /\ out.api_keys = api_keys /\ out.audit_logs = audit_logs
               /\ (held_by # {} /\ bearer.userId \notin held_by) =>
                    /\ out.res.status = 403
                    /\ out.api_keys = api_keys /\ out.audit_logs = audit_logs
          /\ out.res.status = 200 =>
               /\ held_by = {bearer.userId}
               /\ \A n \in 1..Len(listing) : listing[n].id # keyId
  /\ (last.op = "delete-api-key" /\ last.res.status = 200) =>
       \A n \in 1..Len(api_keys) : api_keys[n].id # last.req.id
  /\ (last.op = "delete-api-key" /\ last.res.status \in {403, 404}) =>
       \A bearer \in Requesters :
         bearer.userId = last.req.userId =>
           DeleteApiKeyOutcome(users, audit_logs, api_keys, bearer, last.req.id, 0,
                               now).res = last.res

\* A user asked to delete a key that another user holds and was answered 403;
\* the key is still stored.
C38_Witness ==
  /\ last.op = "delete-api-key"
  /\ last.res.status = 403
  /\ \E n \in 1..Len(api_keys) : /\ api_keys[n].id = last.req.id
                                 /\ api_keys[n].user_id # last.req.userId

====
